---- MODULE Spec2Model ----
(***************************************************************************)
(* Verification model of the qa_agent repository:                          *)
(*   - POST /api/generate-tests (src/src/app/api/generate-tests/route.ts): *)
(*     request validation, the gcs and schema run modes, the execution     *)
(*     loops that turn query outcomes into PASS / FAIL / ERROR results;    *)
(*   - the dashboard's handleViewResult normalisation of a run's output;   *)
(*   - the check template registry PREDEFINED_TESTS and getEnabledTests    *)
(*     (src/unnamed/part_002).                                             *)
(*                                                                         *)
(* JavaScript values are records [k, v]: k is the kind ("undefined",       *)
(* "null", "string", "array", "object") and v the payload.  A string is a  *)
(* sequence of text chunks, so that the empty string is <<>> and trim()    *)
(* has something to remove; an object is the sequence of its entries in    *)
(* insertion order, which is the order Object.entries / Object.values      *)
(* enumerate.                                                              *)
(***************************************************************************)
EXTENDS Integers, Sequences, FiniteSets, TLC

\* ------------------------------------------------------------------ bounds
MaxTests == 3
MaxRows == 2
MaxCount == 2
MaxDatasets == 2
MaxTables == 1
MaxIds == 3
MaxRuns == 3

\* ------------------------------------------------------- JavaScript values
Undefined == [k |-> "undefined", v |-> <<>>]
Null == [k |-> "null", v |-> <<>>]
Str(s) == [k |-> "string", v |-> s]
Arr(a) == [k |-> "array", v |-> a]
Obj(entries) == [k |-> "object", v |-> entries]

\* !x for the values the model uses: undefined, null and "" are falsy;
\* arrays and objects (also empty ones) and non-empty strings are truthy.
Falsy(x) == \/ x.k \in {"undefined", "null"}
            \/ (x.k = "string" /\ x.v = <<>>)

Whitespace == " "

\* quoting characters of the message and SQL template literals; the grave accent
\* (U+0060) around table names is written by name, as one chunk of its own
Backtick == "U+0060"
Quote == "'"

RECURSIVE TrimStart(_)
TrimStart(s) == IF s # <<>> /\ Head(s) = Whitespace THEN TrimStart(Tail(s)) ELSE s

RECURSIVE TrimEnd(_)
TrimEnd(s) ==
    IF s # <<>> /\ s[Len(s)] = Whitespace THEN TrimEnd(SubSeq(s, 1, Len(s) - 1)) ELSE s

\* String.prototype.trim
Trim(s) == TrimEnd(TrimStart(s))

Abs(n) == IF n < 0 THEN -n ELSE n

\* sequences over S of length lo..hi
SeqsOf(S, lo, hi) == UNION {[1..n -> S] : n \in lo..hi}

\* number of elements of a sequence that carry status st
RECURSIVE CountStatus(_, _)
CountStatus(rs, st) ==
    IF rs = <<>> THEN 0
    ELSE (IF Head(rs).status = st THEN 1 ELSE 0) + CountStatus(Tail(rs), st)


\* ------------------------------------------------------------------- state
VARIABLES
    body,            \* the JSON body of the POST request
    pc,              \* where the handler (and then the dashboard) stands
    fileRowCount,    \* route.ts: rows counted in the source CSV file
    bqRowCount,      \* route.ts: COUNT(*) of the target table
    dsIdx,           \* route.ts: position of the dataset loop (schema mode)
    allSchemas,      \* route.ts: table schemas fetched so far (schema mode)
    testCases,       \* route.ts: what JSON.parse made of the AI response
    testIdx,         \* route.ts: position of the execution loop
    results,         \* route.ts: the results array
    queried,         \* the queries sent to the warehouse: position of the test
                     \* case in testCases and what the warehouse answered
    response,        \* the HTTP response of the handler
    stored,          \* localStorage "testResults" as handleViewResult wrote it
    config,          \* the mapping config handed to generateSQL
    enabledTestIds,  \* the argument of getEnabledTests
    selected,        \* what getEnabledTests returned
    generated,       \* what the last generateSQL call returned
    tbl,             \* warehouse: the rows of the target table
    refs,            \* warehouse: the referenced tables, by name
    fetched,         \* what the warehouse answered to the generated query
    form,            \* DashboardForm: the SCD fields of the form
    payload,         \* DashboardForm: the last request body the form sent
    regenerated,     \* what a second generateSQL call on the same config returned
    refetched,       \* what the warehouse answered when the query was run again
    sample,          \* a result with its sample rows, and the rows the view shows
    submit,          \* DashboardForm: loading, localStorage and the page opened
    saves,           \* ResultsView: savedTests and the save requests under way
    viewed,          \* handleViewResult: its argument and what it stored
    hist             \* HistoryList: history, loading, error and the fetches under way

vars == <<body, pc, fileRowCount, bqRowCount, dsIdx, allSchemas, testCases,
          testIdx, results, queried, response, stored, config, enabledTestIds,
          selected, generated, tbl, refs, fetched, form, payload,
          regenerated, refetched, sample, submit, saves, viewed, hist>>

warehouseVars == <<tbl, refs, fetched>>

formVars == <<form, payload>>

\* what the later sections add to the state
viewVars == <<sample, submit, saves, viewed, hist>>

uiVars == <<regenerated, refetched, viewVars>>

routeVars == <<body, pc, fileRowCount, bqRowCount, dsIdx, allSchemas, testCases,
               testIdx, results, queried, response, stored>>

registryVars == <<config, enabledTestIds, selected, generated>>

\* --------------------------------------------------------- request bodies
Present(name) == Str(<<name>>)

GcsBodies ==
    [projectId : {Undefined, Str(<<>>), Present("proj")},
     comparisonMode : {Present("gcs")},
     gcsBucket : {Undefined, Present("bucket")},
     gcsFilePath : {Undefined, Present("path.csv")},
     fileFormat : {Undefined, Present("csv"), Present("json")},
     targetDataset : {Undefined, Present("ds")},
     targetTable : {Undefined, Present("tbl")},
     datasets : {Undefined},
     erdDescription : {Undefined, Present("erd")}]

DatasetName(n) == Present("dataset" \o ToString(n))

SchemaBodies ==
    [projectId : {Undefined, Str(<<>>), Present("proj")},
     comparisonMode : {Undefined, Present("schema")},
     gcsBucket : {Undefined},
     gcsFilePath : {Undefined},
     fileFormat : {Undefined},
     targetDataset : {Undefined},
     targetTable : {Undefined},
     datasets : {Undefined, Present("dataset1")}
                \cup {Arr([n \in 1..len |-> DatasetName(n)]) : len \in 0..MaxDatasets},
     erdDescription : {Undefined, Str(<<>>), Present("erd")}]

Bodies == GcsBodies \cup SchemaBodies

\* ------------------------------------------------------------- responses
NoResponse == [status |-> 0, error |-> Undefined, results |-> Undefined]
ErrorResponse(code, message) ==
    [status |-> code, error |-> Str(message), results |-> Undefined]
OkResponse(rs) == [status |-> 200, error |-> Undefined, results |-> Arr(rs)]

\* Response.ok: a status in the range 200-299
ResponseOk(r) == r.status >= 200 /\ r.status <= 299

\* ------------------------------------------------- the AI's test cases
SqlTexts == {Undefined, Str(<<>>), Str(<<Whitespace>>), Str(<<"SELECT">>)}

TestCase(n, sql) ==
    [test_name |-> Present("test" \o ToString(n)),
     description |-> Present("description" \o ToString(n)),
     sql_query |-> sql,
     severity |-> Present("HIGH")]

TestLists ==
    {[n \in 1..Len(sqls) |-> TestCase(n, sqls[n])] :
        sqls \in SeqsOf(SqlTexts, 0, MaxTests)}

\* JSON.parse of the AI's text: an array of test cases, or a JSON value that
\* is not iterable (an object)
ParsedValues == {Arr(l) : l \in TestLists} \cup {Obj(<<>>)}


\* ------------------------------------------------- the warehouse's answers
ErrorMessages == {"Not found: Table", "Syntax error"}

Rows(n) == [r \in 1..n |-> r]

Returned(n) == [k |-> "rows", rows |-> Rows(n), message |-> ""]
Raised(m) == [k |-> "raise", rows |-> <<>>, message |-> m]

\* bigquery.query(sql): a statement with no text is refused (by the client
\* for a missing or empty string, by the service for a blank one); any other
\* statement returns rows or raises.
QueryOutcomes(sql) ==
    IF Falsy(sql) \/ Trim(sql.v) = <<>>
    THEN {Raised(m) : m \in ErrorMessages}
    ELSE {Returned(n) : n \in 0..MaxRows} \cup {Raised(m) : m \in ErrorMessages}

\* --------------------------------------------------- faults for sensitivity
\* Variants of the result constructors with one plausible slip each; the
\* properties below are expected to tell each of them from the code.

\* the difference of the counts reported with its sign
RowCountResultSigned(fileCount, bqCount) ==
    [test_name |-> Present("Row Count Match"),
     description |-> Str(<<"GCS file has ", ToString(fileCount),
                           " rows, BigQuery has ", ToString(bqCount), " rows">>),
     status |-> IF fileCount = bqCount THEN "PASS" ELSE "FAIL",
     severity |-> Present("HIGH"),
     sql_query |-> Str(<<>>),
     rows_affected |-> fileCount - bqCount,
     error_message |->
        IF fileCount # bqCount
        THEN Str(<<"Row count mismatch: ", ToString(Abs(fileCount - bqCount)),
                   " rows difference">>)
        ELSE Null]

\* a single returned row tolerated as a pass
RowsResultLenient(test, rows) ==
    [test_name |-> test.test_name,
     description |-> test.description,
     status |-> IF Len(rows) <= 1 THEN "PASS" ELSE "FAIL",
     severity |-> test.severity,
     sql_query |-> test.sql_query,
     rows_affected |-> Len(rows),
     error_message |-> Null]

\* a raised query reported as a failed check, its message dropped
ErrorResultAsFail(test, message) ==
    [test_name |-> test.test_name,
     description |-> test.description,
     status |-> "FAIL",
     severity |-> test.severity,
     sql_query |-> test.sql_query,
     rows_affected |-> 0,
     error_message |-> Null]

\* errors counted among the failed results
SummaryErrorsAsFailed(rs) ==
    [k |-> "object",
     v |-> [total_tests |-> Len(rs),
            passed |-> CountStatus(rs, "PASS"),
            failed |-> CountStatus(rs, "FAIL") + CountStatus(rs, "ERROR"),
            errors |-> 0]]

\* ------------------------------------------------- route.ts: result records
\* the "Row Count Match" result pushed first in gcs mode
RowCountResult(fileCount, bqCount) ==
    [test_name |-> Present("Row Count Match"),
     description |-> Str(<<"GCS file has ", ToString(fileCount),
                           " rows, BigQuery has ", ToString(bqCount), " rows">>),
     status |-> IF fileCount = bqCount THEN "PASS" ELSE "FAIL",
     severity |-> Present("HIGH"),
     sql_query |-> Str(<<>>),
     rows_affected |-> Abs(fileCount - bqCount),
     error_message |->
        IF fileCount # bqCount
        THEN Str(<<"Row count mismatch: ", ToString(Abs(fileCount - bqCount)),
                   " rows difference">>)
        ELSE Null]

\* the try branch: the query returned rows
RowsResult(test, rows) ==
    [test_name |-> test.test_name,
     description |-> test.description,
     status |-> IF Len(rows) = 0 THEN "PASS" ELSE "FAIL",
     severity |-> test.severity,
     sql_query |-> test.sql_query,
     rows_affected |-> Len(rows),
     error_message |-> Null]

\* the catch branch: the query raised
ErrorResult(test, message) ==
    [test_name |-> test.test_name,
     description |-> test.description,
     status |-> "ERROR",
     severity |-> test.severity,
     sql_query |-> test.sql_query,
     rows_affected |-> 0,
     error_message |-> Str(<<message>>)]

QueryResult(test, out) ==
    IF out.k = "rows" THEN RowsResult(test, out.rows) ELSE ErrorResult(test, out.message)

\* gcs mode's guard: tests without SQL are skipped
SkipsTest(test) == Falsy(test.sql_query) \/ Trim(test.sql_query.v) = <<>>

\* ------------------------------------------- route.ts: request validation
IsGcsMode(b) == b.comparisonMode = Present("gcs")

\* fault for sensitivity: the file format of a gcs request not checked
ValidationErrorAnyFormat(b) ==
    IF Falsy(b.projectId) THEN <<"Missing required field: projectId">>
    ELSE IF IsGcsMode(b)
    THEN IF \/ Falsy(b.gcsBucket) \/ Falsy(b.gcsFilePath)
            \/ Falsy(b.targetDataset) \/ Falsy(b.targetTable)
         THEN <<"Missing required fields for GCS comparison">>
         ELSE <<>>
    ELSE IF \/ Falsy(b.datasets) \/ b.datasets.k # "array"
            \/ Len(b.datasets.v) = 0 \/ Falsy(b.erdDescription)
         THEN <<"Missing required fields. Provide projectId, datasets (array), and erdDescription.">>
         ELSE <<>>

\* the message of the 400 response, or <<>> for a request that passes
ValidationError(b) ==
    IF Falsy(b.projectId) THEN <<"Missing required field: projectId">>
    ELSE IF IsGcsMode(b)
    THEN IF \/ Falsy(b.gcsBucket) \/ Falsy(b.gcsFilePath)
            \/ Falsy(b.targetDataset) \/ Falsy(b.targetTable)
         THEN <<"Missing required fields for GCS comparison">>
         ELSE IF b.fileFormat # Present("csv")
         THEN <<"Currently only CSV format is supported">>
         ELSE <<>>
    ELSE IF \/ Falsy(b.datasets) \/ b.datasets.k # "array"
            \/ Len(b.datasets.v) = 0 \/ Falsy(b.erdDescription)
         THEN <<"Missing required fields. Provide projectId, datasets (array), and erdDescription.">>
         ELSE <<>>

\* the catch of the gcs block
GcsFailure(message) == ErrorResponse(500, <<"GCS comparison failed: ", message>>)

\* ------------------------------------- handleViewResult (DashboardForm)
Summary(rs) ==
    [k |-> "object",
     v |-> [total_tests |-> Len(rs),
            passed |-> CountStatus(rs, "PASS"),
            failed |-> CountStatus(rs, "FAIL"),
            errors |-> CountStatus(rs, "ERROR")]]

\* fault for sensitivity: the summary recomputed whenever results are there
HandleViewResultRecount(details) ==
    IF ~Falsy(details.results)
    THEN [details EXCEPT
            !.predefined_results = IF Falsy(details.predefined_results)
                                   THEN details.results
                                   ELSE details.predefined_results,
            !.summary = Summary(details.results.v)]
    ELSE details

\* details as normalised and written to localStorage "testResults"
HandleViewResult(details) ==
    IF ~Falsy(details.results) /\ Falsy(details.predefined_results)
    THEN [details EXCEPT
            !.predefined_results = details.results,
            !.summary = IF Falsy(details.summary)
                        THEN Summary(details.results.v)
                        ELSE details.summary]
    ELSE details

\* the JSON body of an ok response of the route: {results}
ResponseData(r) ==
    [results |-> r.results, predefined_results |-> Undefined, summary |-> Undefined]

NothingStored == [results |-> Undefined, predefined_results |-> Undefined,
                  summary |-> Undefined]

\* ------------------------------------------------------------------- Init
\* no generateSQL call made yet
NoCall == [id |-> "", out |-> Undefined]

RegistryIdle ==
    /\ config = Undefined
    /\ enabledTestIds = Undefined
    /\ selected = Undefined
    /\ generated = NoCall

\* no query sent to the warehouse yet
NotFetched == [k |-> "none", rows |-> <<>>, message |-> ""]

\* no table looked at
NoTable == [columns |-> {}, runs |-> <<>>]

WarehouseIdle ==
    /\ tbl = NoTable
    /\ refs = <<>>
    /\ fetched = NotFetched

FormIdle ==
    /\ form = Undefined
    /\ payload = Undefined

\* a component that is not mounted
Unmounted == [k |-> "unmounted"]

ViewIdle ==
    /\ sample = Unmounted
    /\ submit = Unmounted
    /\ saves = Unmounted
    /\ viewed = Unmounted
    /\ hist = Unmounted

UiIdle ==
    /\ regenerated = NoCall
    /\ refetched = NotFetched
    /\ ViewIdle

Init ==
    /\ body \in Bodies
    /\ pc = "received"
    /\ fileRowCount = 0
    /\ bqRowCount = 0
    /\ dsIdx = 0
    /\ allSchemas = <<>>
    /\ testCases = Undefined
    /\ testIdx = 0
    /\ results = <<>>
    /\ queried = <<>>
    /\ response = NoResponse
    /\ stored = NothingStored
    /\ RegistryIdle
    /\ WarehouseIdle
    /\ FormIdle
    /\ UiIdle

Respond(r) ==
    /\ response' = r
    /\ pc' = "done"

\* ------------------------------------------------------ route.ts actions
\* lines 98-125 and 285-292
Validate ==
    /\ pc = "received"
    /\ IF ValidationError(body) # <<>>
       THEN /\ Respond(ErrorResponse(400, ValidationError(body)))
            /\ UNCHANGED dsIdx
       ELSE /\ pc' = IF IsGcsMode(body) THEN "gcs_file" ELSE "fetch"
            /\ dsIdx' = IF IsGcsMode(body) THEN dsIdx ELSE 1
            /\ UNCHANGED response
    /\ UNCHANGED <<body, fileRowCount, bqRowCount, allSchemas, testCases, testIdx,
                   results, queried, stored>>
    /\ UNCHANGED registryVars
    /\ UNCHANGED <<warehouseVars, formVars, uiVars>>

\* lines 130-132: countCSVRows, getCSVHeaders, sampleCSVData
GcsReadFile ==
    /\ pc = "gcs_file"
    /\ \/ \E n \in 0..MaxCount :
            /\ fileRowCount' = n
            /\ pc' = "gcs_table"
            /\ UNCHANGED response
       \/ /\ Respond(GcsFailure("File not found"))
          /\ UNCHANGED fileRowCount
    /\ UNCHANGED <<body, bqRowCount, dsIdx, allSchemas, testCases, testIdx, results,
                   queried, stored>>
    /\ UNCHANGED registryVars
    /\ UNCHANGED <<warehouseVars, formVars, uiVars>>

\* lines 135-149: COUNT(*), the sample query and the table metadata
GcsQueryTable ==
    /\ pc = "gcs_table"
    /\ \/ \E n \in 0..MaxCount :
            /\ bqRowCount' = n
            /\ pc' = "gcs_generate"
            /\ UNCHANGED response
       \/ \E m \in ErrorMessages :
            /\ Respond(GcsFailure(m))
            /\ UNCHANGED bqRowCount
    /\ UNCHANGED <<body, fileRowCount, dsIdx, allSchemas, testCases, testIdx, results,
                   queried, stored>>
    /\ UNCHANGED registryVars
    /\ UNCHANGED <<warehouseVars, formVars, uiVars>>

\* lines 211-239: generateContent, JSON.parse, the row count result
GcsGenerate ==
    /\ pc = "gcs_generate"
    /\ \/ /\ Respond(GcsFailure("Vertex AI unavailable"))
          /\ UNCHANGED <<testCases, testIdx, results>>
       \/ /\ Respond(ErrorResponse(500, <<"Failed to parse AI-generated test cases">>))
          /\ UNCHANGED <<testCases, testIdx, results>>
       \/ \E parsed \in ParsedValues :
            /\ testCases' = parsed
            /\ results' = <<RowCountResult(fileRowCount, bqRowCount)>>
            /\ testIdx' = 1
            /\ pc' = "gcs_loop"
            /\ UNCHANGED response
    /\ UNCHANGED <<body, fileRowCount, bqRowCount, dsIdx, allSchemas, queried, stored>>
    /\ UNCHANGED registryVars
    /\ UNCHANGED <<warehouseVars, formVars, uiVars>>

\* fault for sensitivity: a failed check reported ahead of the results of
\* the tests before it
GcsExecuteTestFailuresFirst ==
    /\ pc = "gcs_loop"
    /\ testCases.k = "array"
    /\ testIdx <= Len(testCases.v)
    /\ LET test == testCases.v[testIdx] IN
         IF SkipsTest(test)
         THEN UNCHANGED <<results, queried>>
         ELSE \E out \in QueryOutcomes(test.sql_query) :
                /\ results' = IF out.k = "rows" /\ Len(out.rows) > 0
                              THEN <<Head(results), QueryResult(test, out)>> \o Tail(results)
                              ELSE Append(results, QueryResult(test, out))
                /\ queried' = Append(queried, [idx |-> testIdx, out |-> out])
    /\ testIdx' = testIdx + 1
    /\ UNCHANGED <<body, pc, fileRowCount, bqRowCount, dsIdx, allSchemas, testCases,
                   response, stored>>
    /\ UNCHANGED registryVars
    /\ UNCHANGED <<warehouseVars, formVars, uiVars>>

\* lines 242-271: one iteration of the gcs execution loop
GcsExecuteTest ==
    /\ pc = "gcs_loop"
    /\ testCases.k = "array"
    /\ testIdx <= Len(testCases.v)
    /\ LET test == testCases.v[testIdx] IN
         IF SkipsTest(test)
         THEN UNCHANGED <<results, queried>>
         ELSE \E out \in QueryOutcomes(test.sql_query) :
                /\ results' = Append(results, QueryResult(test, out))
                /\ queried' = Append(queried, [idx |-> testIdx, out |-> out])
    /\ testIdx' = testIdx + 1
    /\ UNCHANGED <<body, pc, fileRowCount, bqRowCount, dsIdx, allSchemas, testCases,
                   response, stored>>
    /\ UNCHANGED registryVars
    /\ UNCHANGED <<warehouseVars, formVars, uiVars>>

\* line 242 on a parsed value that is not iterable: the TypeError reaches the
\* catch of the gcs block
GcsNotIterable ==
    /\ pc = "gcs_loop"
    /\ testCases.k # "array"
    /\ Respond(GcsFailure("testCases is not iterable"))
    /\ UNCHANGED <<body, fileRowCount, bqRowCount, dsIdx, allSchemas, testCases, testIdx,
                   results, queried, stored>>
    /\ UNCHANGED registryVars
    /\ UNCHANGED <<warehouseVars, formVars, uiVars>>

\* line 273
GcsReturn ==
    /\ pc = "gcs_loop"
    /\ testCases.k = "array"
    /\ testIdx > Len(testCases.v)
    /\ Respond(OkResponse(results))
    /\ UNCHANGED <<body, fileRowCount, bqRowCount, dsIdx, allSchemas, testCases, testIdx,
                   results, queried, stored>>
    /\ UNCHANGED registryVars
    /\ UNCHANGED <<warehouseVars, formVars, uiVars>>

\* the schemas of the tables of one dataset, as pushed onto allSchemas
TableSchemas(datasetId, n) ==
    [t \in 1..n |-> [datasetId |-> datasetId, tableId |-> Present("table" \o ToString(t))]]

\* lines 297-319: one iteration of the per-dataset schema fetch loop
SchemaFetchDataset ==
    /\ pc = "fetch"
    /\ dsIdx <= Len(body.datasets.v)
    /\ LET datasetId == body.datasets.v[dsIdx] IN
         \/ \E n \in 0..MaxTables :
              /\ allSchemas' = allSchemas \o TableSchemas(datasetId, n)
              /\ dsIdx' = dsIdx + 1
              /\ UNCHANGED <<pc, response>>
         \/ \E m \in ErrorMessages :
              /\ Respond(ErrorResponse(500,
                    <<"Failed to fetch tables from dataset ", Quote>> \o datasetId.v
                        \o <<Quote, ": ", m>>))
              /\ UNCHANGED <<allSchemas, dsIdx>>
    /\ UNCHANGED <<body, fileRowCount, bqRowCount, testCases, testIdx, results, queried,
                   stored>>
    /\ UNCHANGED registryVars
    /\ UNCHANGED <<warehouseVars, formVars, uiVars>>

\* lines 321-326
SchemaNoTables ==
    /\ pc = "fetch"
    /\ dsIdx > Len(body.datasets.v)
    /\ Len(allSchemas) = 0
    /\ Respond(ErrorResponse(404, <<"No tables found in the specified datasets">>))
    /\ UNCHANGED <<body, fileRowCount, bqRowCount, dsIdx, allSchemas, testCases, testIdx,
                   results, queried, stored>>
    /\ UNCHANGED registryVars
    /\ UNCHANGED <<warehouseVars, formVars, uiVars>>

\* lines 328-393: generateContent, JSON.parse, the empty results array
SchemaGenerate ==
    /\ pc = "fetch"
    /\ dsIdx > Len(body.datasets.v)
    /\ Len(allSchemas) > 0
    /\ \/ /\ Respond(ErrorResponse(500, <<"Vertex AI unavailable">>))
          /\ UNCHANGED <<testCases, testIdx, results>>
       \/ /\ Respond(ErrorResponse(500, <<"Failed to parse AI-generated test cases">>))
          /\ UNCHANGED <<testCases, testIdx, results>>
       \/ \E parsed \in ParsedValues :
            /\ testCases' = parsed
            /\ results' = <<>>
            /\ testIdx' = 1
            /\ pc' = "schema_loop"
            /\ UNCHANGED response
    /\ UNCHANGED <<body, fileRowCount, bqRowCount, dsIdx, allSchemas, queried, stored>>
    /\ UNCHANGED registryVars
    /\ UNCHANGED <<warehouseVars, formVars, uiVars>>

\* lines 394-419: one iteration of the schema execution loop
SchemaExecuteTest ==
    /\ pc = "schema_loop"
    /\ testCases.k = "array"
    /\ testIdx <= Len(testCases.v)
    /\ LET test == testCases.v[testIdx] IN
         \E out \in QueryOutcomes(test.sql_query) :
            /\ results' = Append(results, QueryResult(test, out))
            /\ queried' = Append(queried, [idx |-> testIdx, out |-> out])
    /\ testIdx' = testIdx + 1
    /\ UNCHANGED <<body, pc, fileRowCount, bqRowCount, dsIdx, allSchemas, testCases,
                   response, stored>>
    /\ UNCHANGED registryVars
    /\ UNCHANGED <<warehouseVars, formVars, uiVars>>

\* line 394 on a parsed value that is not iterable: the TypeError reaches the
\* handler's outer catch (lines 423-428)
SchemaNotIterable ==
    /\ pc = "schema_loop"
    /\ testCases.k # "array"
    /\ Respond(ErrorResponse(500, <<"testCases is not iterable">>))
    /\ UNCHANGED <<body, fileRowCount, bqRowCount, dsIdx, allSchemas, testCases, testIdx,
                   results, queried, stored>>
    /\ UNCHANGED registryVars
    /\ UNCHANGED <<warehouseVars, formVars, uiVars>>

\* line 421
SchemaReturn ==
    /\ pc = "schema_loop"
    /\ testCases.k = "array"
    /\ testIdx > Len(testCases.v)
    /\ Respond(OkResponse(results))
    /\ UNCHANGED <<body, fileRowCount, bqRowCount, dsIdx, allSchemas, testCases, testIdx,
                   results, queried, stored>>
    /\ UNCHANGED registryVars
    /\ UNCHANGED <<warehouseVars, formVars, uiVars>>

\* ------------------------------------------- DashboardForm: after the fetch
\* handleSubmit on an ok response: handleViewResult(data) normalises the
\* run's output, stores it and opens the results page
ViewResult ==
    /\ pc = "done"
    /\ ResponseOk(response)
    /\ stored' = HandleViewResult(ResponseData(response))
    /\ pc' = "results_page"
    /\ UNCHANGED <<body, fileRowCount, bqRowCount, dsIdx, allSchemas, testCases, testIdx,
                   results, queried, response>>
    /\ UNCHANGED registryVars
    /\ UNCHANGED <<warehouseVars, formVars, uiVars>>

\* handleSubmit on a response that is not ok: the error is alerted
SubmitFailed ==
    /\ pc = "done"
    /\ ~ResponseOk(response)
    /\ pc' = "alerted"
    /\ UNCHANGED <<body, fileRowCount, bqRowCount, dsIdx, allSchemas, testCases, testIdx,
                   results, queried, response, stored>>
    /\ UNCHANGED registryVars
    /\ UNCHANGED <<warehouseVars, formVars, uiVars>>

Next ==
    \/ Validate
    \/ GcsReadFile
    \/ GcsQueryTable
    \/ GcsGenerate
    \/ GcsExecuteTest
    \/ GcsNotIterable
    \/ GcsReturn
    \/ SchemaFetchDataset
    \/ SchemaNoTables
    \/ SchemaGenerate
    \/ SchemaExecuteTest
    \/ SchemaNotIterable
    \/ SchemaReturn
    \/ ViewResult
    \/ SubmitFailed

Spec == Init /\ [][Next]_vars

\* ===================================================== the check registry
\* src/unnamed/part_002.  SQL text is a sequence of chunks: the literal
\* pieces of a template string and the values interpolated into it (runs of
\* blanks and line breaks of the literals are written as one blank).

Thrown == [k |-> "throw", v |-> <<>>]

\* Array.prototype.join over chunk sequences
RECURSIVE Join(_, _)
Join(parts, sep) ==
    IF parts = <<>> THEN <<>>
    ELSE IF Len(parts) = 1 THEN parts[1]
    ELSE parts[1] \o <<sep>> \o Join(Tail(parts), sep)

\* the registry, in declaration order (the order of Object.values)
PREDEFINED_TESTS ==
    << [id |-> "row_count_match", severity |-> "HIGH", isGlobal |-> TRUE],
       [id |-> "no_nulls_required", severity |-> "HIGH", isGlobal |-> TRUE],
       [id |-> "no_duplicates_pk", severity |-> "HIGH", isGlobal |-> TRUE],
       [id |-> "referential_integrity", severity |-> "HIGH", isGlobal |-> FALSE],
       [id |-> "numeric_range", severity |-> "MEDIUM", isGlobal |-> FALSE],
       [id |-> "date_range", severity |-> "MEDIUM", isGlobal |-> FALSE],
       [id |-> "pattern_validation", severity |-> "MEDIUM", isGlobal |-> FALSE],
       [id |-> "outlier_detection", severity |-> "LOW", isGlobal |-> FALSE] >>

TemplateIds == {PREDEFINED_TESTS[n].id : n \in DOMAIN PREDEFINED_TESTS}

\* position of a template in the declaration order
DeclIndex(id) == CHOOSE n \in DOMAIN PREDEFINED_TESTS : PREDEFINED_TESTS[n].id = id

\* a member every object literal inherits from Object.prototype
InheritedKeys == {"toString"}
InheritedMember(key) == [id |-> key, severity |-> "", isGlobal |-> FALSE]

\* PREDEFINED_TESTS[id]: the template, an inherited member, or undefined
Lookup(id) ==
    IF id \in TemplateIds THEN [k |-> "template", v |-> PREDEFINED_TESTS[DeclIndex(id)]]
    ELSE IF id \in InheritedKeys THEN [k |-> "function", v |-> InheritedMember(id)]
    ELSE [k |-> "undefined", v |-> InheritedMember("")]

\* Array.prototype.filter by position
KeepPositions(s, keep) == SelectSeq([n \in DOMAIN s |-> n], LAMBDA n : n \in keep)

\* fault for sensitivity: the default selection returns every template
getEnabledTestsAllByDefault(ids) ==
    IF Falsy(ids) \/ Len(ids.v) = 0
    THEN [n \in DOMAIN PREDEFINED_TESTS |-> [k |-> "template", v |-> PREDEFINED_TESTS[n]]]
    ELSE LET mapped == [n \in DOMAIN ids.v |-> Lookup(ids.v[n])]
             defined == {n \in DOMAIN mapped : mapped[n].k # "undefined"}
             kept == KeepPositions(mapped, defined)
         IN  [n \in DOMAIN kept |-> mapped[kept[n]]]

\* getEnabledTests(enabledTestIds)
getEnabledTests(ids) ==
    IF Falsy(ids) \/ Len(ids.v) = 0
    THEN LET globals == {n \in DOMAIN PREDEFINED_TESTS : PREDEFINED_TESTS[n].isGlobal}
             kept == KeepPositions(PREDEFINED_TESTS, globals)
         IN  [n \in DOMAIN kept |-> [k |-> "template", v |-> PREDEFINED_TESTS[kept[n]]]]
    ELSE LET mapped == [n \in DOMAIN ids.v |-> Lookup(ids.v[n])]
             defined == {n \in DOMAIN mapped : mapped[n].k # "undefined"}
             kept == KeepPositions(mapped, defined)
         IN  [n \in DOMAIN kept |-> mapped[kept[n]]]

\* x.length === 0 / Object.keys(x).length === 0 of an array or object
IsEmpty(x) == Len(x.v) = 0

From(cfg) == <<"SELECT * FROM ", Backtick, cfg.fullTableName, Backtick, " WHERE ">>

\* fault for sensitivity: the guard of no_nulls_required left out, so that
\* an absent field is read (a TypeError) and an empty one yields SQL text
no_nulls_required_unguarded(cfg) ==
    IF Falsy(cfg.required_columns) THEN Thrown
    ELSE LET cols == cfg.required_columns.v
             conditions == Join([n \in DOMAIN cols |-> <<cols[n], " IS NULL">>], " OR ")
         IN  Str(From(cfg) \o conditions \o <<" LIMIT 100">>)

no_nulls_required(cfg) ==
    IF Falsy(cfg.required_columns) \/ IsEmpty(cfg.required_columns) THEN Null
    ELSE LET cols == cfg.required_columns.v
             conditions == Join([n \in DOMAIN cols |-> <<cols[n], " IS NULL">>], " OR ")
         IN  Str(From(cfg) \o conditions \o <<" LIMIT 100">>)

no_duplicates_pk(cfg) ==
    IF Falsy(cfg.primary_key_columns) \/ IsEmpty(cfg.primary_key_columns) THEN Null
    ELSE LET cols == cfg.primary_key_columns.v
             pkCols == Join([n \in DOMAIN cols |-> <<cols[n]>>], ", ")
         IN  Str(<<"SELECT ">> \o pkCols
                 \o <<", COUNT(*) as duplicate_count FROM ", Backtick, cfg.fullTableName,
                      Backtick, " GROUP BY ">> \o pkCols \o <<" HAVING COUNT(*) > 1">>)

\* a property read (ref.table, range.min) of null or undefined is a TypeError
ReadsOfNull(entries) == \E n \in DOMAIN entries : Falsy(entries[n][2])

referential_integrity(cfg) ==
    IF Falsy(cfg.foreign_key_checks) \/ IsEmpty(cfg.foreign_key_checks) THEN Null
    ELSE LET entries == cfg.foreign_key_checks.v
             check(e) ==
                <<" SELECT ", Quote, e[1], Quote, " as fk_column, ", e[1],
                  " as invalid_value, COUNT(*) as occurrence_count FROM ", Backtick,
                  cfg.fullTableName, Backtick, " t WHERE ", e[1],
                  " IS NOT NULL AND NOT EXISTS ( SELECT 1 FROM ", Backtick, e[2].table,
                  Backtick, " r WHERE r.", e[2].column, " = t.", e[1], " ) GROUP BY ", e[1],
                  " ">>
         IN  IF ReadsOfNull(entries) THEN Thrown
             ELSE Str(Join([n \in DOMAIN entries |-> check(entries[n])], " UNION ALL "))

numeric_range(cfg) ==
    IF Falsy(cfg.numeric_range_checks) \/ IsEmpty(cfg.numeric_range_checks) THEN Null
    ELSE LET entries == cfg.numeric_range_checks.v
             cond(e) == <<"(", e[1], " < ", ToString(e[2].min), " OR ", e[1], " > ",
                          ToString(e[2].max), ")">>
         IN  IF ReadsOfNull(entries) THEN Thrown
             ELSE Str(From(cfg) \o Join([n \in DOMAIN entries |-> cond(entries[n])], " OR ")
                      \o <<" LIMIT 100">>)

\* one (col < min OR col > max) condition of date_range
DateRangeCondition(e) ==
    <<"(", e[1], " < ", Quote, e[2].min_date, Quote, " OR ", e[1], " > ", Quote,
      e[2].max_date, Quote, ")">>

date_range(cfg) ==
    IF Falsy(cfg.date_range_checks) \/ IsEmpty(cfg.date_range_checks) THEN Null
    ELSE LET entries == cfg.date_range_checks.v
         IN  IF ReadsOfNull(entries) THEN Thrown
             ELSE Str(From(cfg)
                      \o Join([n \in DOMAIN entries |-> DateRangeCondition(entries[n])], " OR ")
                      \o <<" LIMIT 100">>)

\* one NOT REGEXP_CONTAINS(...) condition of pattern_validation
PatternCondition(e) ==
    <<"NOT REGEXP_CONTAINS(CAST(", e[1], " AS STRING), r", Quote, e[2], Quote, ")">>

pattern_validation(cfg) ==
    IF Falsy(cfg.pattern_checks) \/ IsEmpty(cfg.pattern_checks) THEN Null
    ELSE LET entries == cfg.pattern_checks.v
         IN  Str(From(cfg)
                 \o Join([n \in DOMAIN entries |-> PatternCondition(entries[n])], " OR ")
                 \o <<" LIMIT 100">>)

\* fault for sensitivity: the last declared column checked
outlier_detection_last_column(cfg) ==
    IF Falsy(cfg.outlier_columns) \/ IsEmpty(cfg.outlier_columns) THEN Null
    ELSE LET col == cfg.outlier_columns.v[Len(cfg.outlier_columns.v)]
         IN  Str(<<"WITH stats AS ( SELECT AVG(", col, ") as mean, STDDEV(", col,
                   ") as stddev FROM ", Backtick, cfg.fullTableName, Backtick, " WHERE ", col,
                   " IS NOT NULL ) SELECT t.* FROM ", Backtick, cfg.fullTableName,
                   Backtick, " t, stats WHERE ABS(t.", col, " - stats.mean) > 3 * stats.stddev",
                   " LIMIT 100">>)

outlier_detection(cfg) ==
    IF Falsy(cfg.outlier_columns) \/ IsEmpty(cfg.outlier_columns) THEN Null
    ELSE LET col == cfg.outlier_columns.v[1]
         IN  Str(<<"WITH stats AS ( SELECT AVG(", col, ") as mean, STDDEV(", col,
                   ") as stddev FROM ", Backtick, cfg.fullTableName, Backtick, " WHERE ", col,
                   " IS NOT NULL ) SELECT t.* FROM ", Backtick, cfg.fullTableName,
                   Backtick, " t, stats WHERE ABS(t.", col, " - stats.mean) > 3 * stats.stddev",
                   " LIMIT 100">>)

\* fault for sensitivity: a template answers once and null afterwards
generateSQLOnce(id, cfg) ==
    IF generated # NoCall THEN Null
    ELSE CASE id = "row_count_match" -> Null
           [] id = "no_nulls_required" -> no_nulls_required(cfg)
           [] id = "no_duplicates_pk" -> no_duplicates_pk(cfg)
           [] id = "referential_integrity" -> referential_integrity(cfg)
           [] id = "numeric_range" -> numeric_range(cfg)
           [] id = "date_range" -> date_range(cfg)
           [] id = "pattern_validation" -> pattern_validation(cfg)
           [] id = "outlier_detection" -> outlier_detection(cfg)

\* PREDEFINED_TESTS[id].generateSQL(cfg)
generateSQL(id, cfg) ==
    CASE id = "row_count_match" -> Null
      [] id = "no_nulls_required" -> no_nulls_required(cfg)
      [] id = "no_duplicates_pk" -> no_duplicates_pk(cfg)
      [] id = "referential_integrity" -> referential_integrity(cfg)
      [] id = "numeric_range" -> numeric_range(cfg)
      [] id = "date_range" -> date_range(cfg)
      [] id = "pattern_validation" -> pattern_validation(cfg)
      [] id = "outlier_detection" -> outlier_detection(cfg)

\* ------------------------------------------------------- mapping configs
\* values of the config fields the templates read; an entry of a checks
\* object is <<column, value>>
ForeignKey(table, column) == [k |-> "object", table |-> table, column |-> column]
NumericRange(min, max) == [k |-> "object", min |-> min, max |-> max]
DateRange(min_date, max_date) ==
    [k |-> "object", min_date |-> min_date, max_date |-> max_date]

RequiredColumnsValues ==
    {Undefined, Null, Arr(<<>>), Arr(<<"id">>), Arr(<<"id", "name">>)}

PrimaryKeyColumnsValues ==
    {Undefined, Arr(<<>>), Arr(<<"id">>), Arr(<<"id", "region">>)}

ForeignKeyChecksValues ==
    {Undefined, Null, Obj(<<>>),
     Obj(<< <<"customer_id", ForeignKey("proj.ds.customers", "id")>> >>),
     Obj(<< <<"customer_id", ForeignKey("proj.ds.customers", "id")>>,
            <<"product_id", ForeignKey("proj.ds.products", "id")>> >>),
     Obj(<< <<"customer_id", Null>> >>)}

NumericRangeChecksValues ==
    {Undefined, Obj(<<>>),
     Obj(<< <<"age", NumericRange(0, 120)>> >>),
     Obj(<< <<"age", NumericRange(0, 120)>>, <<"price", Null>> >>)}

DateRangeChecksValues ==
    {Undefined, Obj(<<>>),
     Obj(<< <<"order_date", DateRange("2020-01-01", "2030-12-31")>> >>),
     Obj(<< <<"order_date", Undefined>> >>)}

PatternChecksValues ==
    {Undefined, Obj(<<>>), Obj(<< <<"email", "^.+@.+$">> >>)}

OutlierColumnsValues ==
    {Undefined, Arr(<<>>), Arr(<<"amount">>), Arr(<<"amount", "quantity">>)}

Configs ==
    [fullTableName : {"proj.ds.orders"},
     required_columns : RequiredColumnsValues,
     primary_key_columns : PrimaryKeyColumnsValues,
     foreign_key_checks : ForeignKeyChecksValues,
     numeric_range_checks : NumericRangeChecksValues,
     date_range_checks : DateRangeChecksValues,
     pattern_checks : PatternChecksValues,
     outlier_columns : OutlierColumnsValues]

\* a config that sets none of the optional fields
BareConfig ==
    [fullTableName |-> "proj.ds.orders",
     required_columns |-> Undefined,
     primary_key_columns |-> Undefined,
     foreign_key_checks |-> Undefined,
     numeric_range_checks |-> Undefined,
     date_range_checks |-> Undefined,
     pattern_checks |-> Undefined,
     outlier_columns |-> Undefined]

\* values of enabled_test_ids: absent, null, or a list of ids, known or not
EnabledIds == TemplateIds \cup InheritedKeys \cup {"unknown_test"}

EnabledIdLists ==
    {Undefined, Null} \cup {Arr(l) : l \in SeqsOf(EnabledIds, 0, MaxIds)}

\* --------------------------------------------------- registry: Init, Next
\* the route handler is not involved while the registry is exercised
RouteIdle ==
    /\ body = Undefined
    /\ pc = "registry"
    /\ fileRowCount = 0
    /\ bqRowCount = 0
    /\ dsIdx = 0
    /\ allSchemas = <<>>
    /\ testCases = Undefined
    /\ testIdx = 0
    /\ results = <<>>
    /\ queried = <<>>
    /\ response = NoResponse
    /\ stored = NothingStored

InitRegistry ==
    /\ RouteIdle
    /\ \/ config \in Configs /\ enabledTestIds = Undefined
       \/ config = BareConfig /\ enabledTestIds \in EnabledIdLists
    /\ selected = Undefined
    /\ generated = NoCall
    /\ WarehouseIdle
    /\ FormIdle
    /\ UiIdle

\* a caller selects the templates of a mapping
GetEnabledTests ==
    /\ pc = "registry"
    /\ selected = Undefined
    /\ selected' = Arr(getEnabledTests(enabledTestIds))
    /\ UNCHANGED <<config, enabledTestIds, generated>>
    /\ UNCHANGED routeVars
    /\ UNCHANGED <<warehouseVars, formVars, uiVars>>

\* a caller asks one template for its SQL
GenerateSQL ==
    /\ pc = "registry"
    /\ generated = NoCall
    /\ \E id \in TemplateIds :
         generated' = [id |-> id, out |-> generateSQL(id, config)]
    /\ UNCHANGED <<config, enabledTestIds, selected>>
    /\ UNCHANGED routeVars
    /\ UNCHANGED <<warehouseVars, formVars, uiVars>>

NextRegistry ==
    \/ GetEnabledTests
    \/ GenerateSQL

SpecRegistry == InitRegistry /\ [][NextRegistry]_vars

\* =============================================================== properties
\* ------------------------------------------------ read-outs of the state
\* gcs mode pushes the row count result before the loop's results
ResultOffset == IF IsGcsMode(body) THEN 1 ELSE 0

\* the result the loop pushed for the i-th query it sent
ResultOf(i) == results[i + ResultOffset]

Finished == pc \in {"done", "results_page", "alerted"}

\* positions of testCases that the run mode executes
ExecutedPositions ==
    {n \in DOMAIN testCases.v : IsGcsMode(body) => ~SkipsTest(testCases.v[n])}

Statuses(rs) == {rs[i].status : i \in DOMAIN rs}

\* C1: a query on which the warehouse raises is recorded as ERROR with
\* rows_affected 0 and the raised message, for the test it belongs to; a
\* raise never ends the run: while the loop runs no response is sent, and
\* once the tests were parsed the run ends with an ok response that carries
\* one result per executed test, every executed test among them.
C1_RaiseRecordedAsErrorRunContinues ==
    /\ \A i \in DOMAIN queried :
         queried[i].out.k = "raise" =>
            /\ ResultOf(i).status = "ERROR"
            /\ ResultOf(i).rows_affected = 0
            /\ ResultOf(i).error_message = Str(<<queried[i].out.message>>)
            /\ ResultOf(i).test_name = testCases.v[queried[i].idx].test_name
    /\ (testCases.k = "array" /\ pc \in {"gcs_loop", "schema_loop"}) =>
         response = NoResponse
    /\ (testCases.k = "array" /\ Finished) =>
         /\ ResponseOk(response)
         /\ response.results = Arr(results)
         /\ Len(results) = Len(queried) + ResultOffset
         /\ {queried[i].idx : i \in DOMAIN queried} = ExecutedPositions
         /\ \A i, j \in DOMAIN queried : i < j => queried[i].idx < queried[j].idx

\* a finished run in which a query raised and a later one returned rows
C1_Witness ==
    /\ pc = "done"
    /\ ResponseOk(response)
    /\ \E i, j \in DOMAIN queried :
         /\ i < j
         /\ queried[i].out.k = "raise"
         /\ queried[j].out.k = "rows"
         /\ ResultOf(i).status = "ERROR"

\* C2: for every query sent, the result is PASS exactly when the query
\* returned and returned zero rows; a query that returned one or more rows
\* gives FAIL with rows_affected equal to the number of rows returned.
C2_PassIffZeroRows ==
    \A i \in DOMAIN queried :
       LET out == queried[i].out
           r == ResultOf(i)
       IN  /\ (r.status = "PASS") <=> (out.k = "rows" /\ Len(out.rows) = 0)
           /\ (out.k = "rows" /\ Len(out.rows) > 0) =>
                (r.status = "FAIL" /\ r.rows_affected = Len(out.rows))
           /\ (out.k = "rows" /\ Len(out.rows) = 0) => r.rows_affected = 0

\* one query returned no rows and passed, another returned several and failed
C2_Witness ==
    \E i, j \in DOMAIN queried :
       /\ queried[i].out.k = "rows" /\ Len(queried[i].out.rows) = 0
       /\ ResultOf(i).status = "PASS"
       /\ queried[j].out.k = "rows" /\ Len(queried[j].out.rows) > 1
       /\ ResultOf(j).status = "FAIL"

\* C3: the row count result compares the count of the file with the count
\* of the table, each obtained by a step of its own: it is PASS exactly when
\* the two are equal, rows_affected is the absolute difference, and
\* rows_affected is 0 exactly when it passes.
C3_RowCountMatch ==
    (IsGcsMode(body) /\ Len(results) > 0) =>
       LET r == results[1] IN
         /\ r.test_name = Present("Row Count Match")
         /\ (r.status = "PASS") <=> (fileRowCount = bqRowCount)
         /\ r.status \in {"PASS", "FAIL"}
         /\ r.rows_affected =
               IF fileRowCount >= bqRowCount THEN fileRowCount - bqRowCount
               ELSE bqRowCount - fileRowCount
         /\ (r.rows_affected = 0) <=> (r.status = "PASS")

\* a row count result for a file with fewer rows than the table
C3_Witness ==
    /\ IsGcsMode(body)
    /\ Len(results) > 0
    /\ fileRowCount < bqRowCount
    /\ results[1].status = "FAIL"

\* C4: every check that is run appears in the output exactly once with a
\* status among PASS, FAIL and ERROR, and a test case without SQL text
\* (missing, empty or blank) does not appear in the output at all, whatever
\* the run mode.
C4_NoResultWithoutSqlText ==
    /\ Statuses(results) \subseteq {"PASS", "FAIL", "ERROR"}
    /\ \A i, j \in DOMAIN queried : i # j => queried[i].idx # queried[j].idx
    /\ \A i \in DOMAIN queried : ~SkipsTest(testCases.v[queried[i].idx])

\* C5: in every result of a run, the row count result included,
\* error_message is non-null exactly when the status is ERROR.
C5_ErrorMessageIffError ==
    \A i \in DOMAIN results :
       (results[i].error_message # Null) <=> (results[i].status = "ERROR")

\* C9: no failure of a single source ends the request: a request over
\* several datasets that passed validation finishes only after every dataset
\* it names has been processed.
C9_SourceFailureDoesNotAbort ==
    (/\ Finished
     /\ ~IsGcsMode(body)
     /\ ValidationError(body) = <<>>
     /\ Len(body.datasets.v) > 1) =>
       dsIdx > Len(body.datasets.v)

\* C10: in the summary stored for a run, passed, failed and errors are the
\* numbers of results with status PASS, FAIL and ERROR, and the three add up
\* to the number of results, which is total_tests.
C10_SummaryCountsByStatus ==
    pc = "results_page" =>
       LET s == stored.summary.v
           rs == stored.predefined_results.v
           n(st) == Cardinality({i \in DOMAIN rs : rs[i].status = st})
       IN  /\ rs = results
           /\ s.passed = n("PASS")
           /\ s.failed = n("FAIL")
           /\ s.errors = n("ERROR")
           /\ s.passed + s.failed + s.errors = Len(rs)
           /\ s.total_tests = Len(rs)

\* a stored run with passed, failed and errored results side by side
C10_Witness ==
    /\ pc = "results_page"
    /\ stored.summary.v.passed > 0
    /\ stored.summary.v.failed > 0
    /\ stored.summary.v.errors > 0

\* ---------------------------------------------- properties of the registry
\* the config field a template requires
RequiredField(id, cfg) ==
    CASE id = "no_nulls_required" -> cfg.required_columns
      [] id = "no_duplicates_pk" -> cfg.primary_key_columns
      [] id = "referential_integrity" -> cfg.foreign_key_checks
      [] id = "numeric_range" -> cfg.numeric_range_checks
      [] id = "date_range" -> cfg.date_range_checks
      [] id = "pattern_validation" -> cfg.pattern_checks
      [] id = "outlier_detection" -> cfg.outlier_columns

\* absent (undefined or null) or empty (no elements, no keys)
AbsentOrEmpty(x) == x \in {Undefined, Null} \/ x.v = <<>>

SelectedIds == [n \in DOMAIN selected.v |-> selected.v[n].v.id]

\* C6: for every template and every config in which the field the template
\* requires is absent or empty, generateSQL returns null and does not throw;
\* row_count_match, which requires no field, returns null for every config.
C6_NullWhenRequiredConfigAbsent ==
    generated # NoCall =>
       /\ generated.id = "row_count_match" => generated.out = Null
       /\ (/\ generated.id # "row_count_match"
           /\ AbsentOrEmpty(RequiredField(generated.id, config))) =>
             generated.out = Null

\* a template asked for SQL with its own field empty while another
\* template's field holds an entry that makes that template throw
C6_Witness ==
    /\ generated.id = "numeric_range"
    /\ config.numeric_range_checks = Obj(<<>>)
    /\ referential_integrity(config) = Thrown
    /\ generated.out = Null

C8_SelectionInDeclarationOrder ==
    selected.k = "array" =>
       \A i, j \in DOMAIN selected.v :
          (i < j /\ selected.v[i].k = "template" /\ selected.v[j].k = "template") =>
             DeclIndex(selected.v[i].v.id) < DeclIndex(selected.v[j].v.id)

\* ------------------------------------------------ properties, second part
\* C11: when the answer of the AI cannot be parsed the run goes on with no
\* suggestions: no run ends in the error response of a parse failure.
C11_ParseFailureDegradesToNoSuggestions ==
    Finished =>
       response.error # Str(<<"Failed to parse AI-generated test cases">>)

\* ================================================= the warehouse's tables
\* What the warehouse answers to the SQL the templates write.  A table is
\* its set of column names and its rows in scan order, written as runs: a
\* run is a row and the number of consecutive copies of it, so that a table
\* may hold more rows than the sample limit.  A row maps column names to
\* values; a value is NULL or an integer (dates are day numbers).

\* LIMIT 100 of the templates
SampleLimit == 100

SqlNull == [null |-> TRUE, val |-> 0]
Val(n) == [null |-> FALSE, val |-> n]

Run(row, n) == [row |-> row, n |-> n]

\* COUNT(*) of a sequence of runs
RECURSIVE RowCount(_)
RowCount(runs) ==
    IF runs = <<>> THEN 0 ELSE Head(runs).n + RowCount(Tail(runs))

\* WHERE: the runs whose row satisfies keep, in scan order
Where(runs, keep(_)) == SelectSeq(runs, LAMBDA run : keep(run.row))

\* LIMIT k: the first k rows in scan order
RECURSIVE Limit(_, _)
Limit(runs, k) ==
    IF runs = <<>> \/ k = 0 THEN <<>>
    ELSE IF Head(runs).n >= k THEN <<Run(Head(runs).row, k)>>
    ELSE <<Head(runs)>> \o Limit(Tail(runs), k - Head(runs).n)

Fetched(runs) == [k |-> "rows", rows |-> runs, message |-> ""]
QueryRaised(m) == [k |-> "raise", rows |-> <<>>, message |-> m]

\* a column the statement names and the table does not have
UnknownColumn(cols, t) == \E n \in DOMAIN cols : cols[n] \notin t.columns

\* the tables of at most maxRuns runs over the given rows and run sizes
TablesOver(columns, rows, sizes, maxRuns) ==
    {[columns |-> columns, runs |-> runs] :
        runs \in SeqsOf({Run(row, n) : row \in rows, n \in sizes}, 0, maxRuns)}

\* ------------------------------------------- what the templates' SQL selects
\* fault for sensitivity: the columns combined with AND
EvalNoNullsRequiredAllNull(cfg, t) ==
    LET cols == cfg.required_columns.v
    IN  IF UnknownColumn(cols, t) THEN QueryRaised("Unrecognized name")
        ELSE Fetched(Limit(Where(t.runs,
                                 LAMBDA row : \A n \in DOMAIN cols : row[cols[n]].null),
                           SampleLimit))

\* SELECT * FROM t WHERE c1 IS NULL OR c2 IS NULL ... LIMIT 100
EvalNoNullsRequired(cfg, t) ==
    LET cols == cfg.required_columns.v
    IN  IF UnknownColumn(cols, t) THEN QueryRaised("Unrecognized name")
        ELSE Fetched(Limit(Where(t.runs,
                                 LAMBDA row : \E n \in DOMAIN cols : row[cols[n]].null),
                           SampleLimit))

\* the columns of a list, as a set
ColumnSet(cols) == {cols[n] : n \in DOMAIN cols}

\* the values of a row in the columns of a key
Project(row, columns) == [c \in columns |-> row[c]]

\* GROUP BY: the distinct key values, in order of first appearance
RECURSIVE GroupKeys(_, _, _)
GroupKeys(runs, columns, seen) ==
    IF runs = <<>> THEN <<>>
    ELSE LET key == Project(Head(runs).row, columns)
         IN  IF key \in seen THEN GroupKeys(Tail(runs), columns, seen)
             ELSE <<key>> \o GroupKeys(Tail(runs), columns, seen \cup {key})

\* COUNT(*) of the group of a key
GroupCount(runs, columns, key) ==
    RowCount(Where(runs, LAMBDA row : Project(row, columns) = key))

\* an output row of a grouped query: the key and the count under a name
GroupRow(key, columns, countName, count) ==
    [c \in columns \cup {countName} |-> IF c = countName THEN Val(count) ELSE key[c]]

\* fault for sensitivity: HAVING COUNT(*) >= 1
EvalNoDuplicatesPkEveryGroup(cfg, t) ==
    LET cols == cfg.primary_key_columns.v
        keys == GroupKeys(t.runs, ColumnSet(cols), {})
    IN  IF UnknownColumn(cols, t) THEN QueryRaised("Unrecognized name")
        ELSE Fetched([n \in DOMAIN keys |->
                        Run(GroupRow(keys[n], ColumnSet(cols), "duplicate_count",
                                     GroupCount(t.runs, ColumnSet(cols), keys[n])), 1)])

\* SELECT pk, COUNT(*) as duplicate_count FROM t GROUP BY pk HAVING COUNT(*) > 1
EvalNoDuplicatesPk(cfg, t) ==
    LET cols == cfg.primary_key_columns.v
        keys == GroupKeys(t.runs, ColumnSet(cols), {})
        dups == SelectSeq(keys,
                    LAMBDA key : GroupCount(t.runs, ColumnSet(cols), key) > 1)
    IN  IF UnknownColumn(cols, t) THEN QueryRaised("Unrecognized name")
        ELSE Fetched([n \in DOMAIN dups |->
                        Run(GroupRow(dups[n], ColumnSet(cols), "duplicate_count",
                                     GroupCount(t.runs, ColumnSet(cols), dups[n])), 1)])

\* the columns the entries of a checks object name
EntryColumns(entries) == [n \in DOMAIN entries |-> entries[n][1]]

\* (col < min OR col > max): TRUE for a value outside, never for NULL
OutsideRange(value, min, max) ==
    ~value.null /\ (value.val < min \/ value.val > max)

\* fault for sensitivity: the bounds themselves flagged
EvalNumericRangeInclusive(cfg, t) ==
    LET entries == cfg.numeric_range_checks.v
    IN  IF UnknownColumn(EntryColumns(entries), t) THEN QueryRaised("Unrecognized name")
        ELSE Fetched(Limit(Where(t.runs,
                LAMBDA row : \E n \in DOMAIN entries :
                    /\ ~row[entries[n][1]].null
                    /\ \/ row[entries[n][1]].val <= entries[n][2].min
                       \/ row[entries[n][1]].val >= entries[n][2].max),
                SampleLimit))

\* SELECT * FROM t WHERE (c < min OR c > max) OR ... LIMIT 100
EvalNumericRange(cfg, t) ==
    LET entries == cfg.numeric_range_checks.v
    IN  IF UnknownColumn(EntryColumns(entries), t) THEN QueryRaised("Unrecognized name")
        ELSE Fetched(Limit(Where(t.runs,
                LAMBDA row : \E n \in DOMAIN entries :
                    OutsideRange(row[entries[n][1]], entries[n][2].min, entries[n][2].max)),
                SampleLimit))

\* a date literal compared with a date column: the day it names, counted
\* from 1970-01-01
DayNumber(literal) ==
    CASE literal = "2020-01-01" -> 18262
      [] literal = "2030-12-31" -> 22279

\* SELECT * FROM t WHERE (c < 'min_date' OR c > 'max_date') OR ... LIMIT 100
EvalDateRange(cfg, t) ==
    LET entries == cfg.date_range_checks.v
    IN  IF UnknownColumn(EntryColumns(entries), t) THEN QueryRaised("Unrecognized name")
        ELSE Fetched(Limit(Where(t.runs,
                LAMBDA row : \E n \in DOMAIN entries :
                    OutsideRange(row[entries[n][1]], DayNumber(entries[n][2].min_date),
                                 DayNumber(entries[n][2].max_date))),
                SampleLimit))

\* concatenation of a sequence of sequences (UNION ALL of the parts)
RECURSIVE Concat(_)
Concat(parts) == IF parts = <<>> THEN <<>> ELSE Head(parts) \o Concat(Tail(parts))

\* NOT EXISTS (SELECT 1 FROM ref r WHERE r.column = t.fk): no row of the
\* referenced table holds the value (a NULL there equals nothing)
Unmatched(value, ref, column) ==
    \A n \in DOMAIN ref.runs :
        ref.runs[n].row[column].null \/ ref.runs[n].row[column].val # value.val

\* what makes the statement of referential_integrity fail: a table or a
\* column that does not exist, a comparison of two columns of different
\* types, or branches of the UNION ALL whose invalid_value columns have
\* different types
ForeignKeyFault(entries, t, r) ==
    IF \E n \in DOMAIN entries : entries[n][1] \notin t.columns
    THEN "Unrecognized name"
    ELSE IF \E n \in DOMAIN entries : entries[n][2].table \notin DOMAIN r
    THEN "Not found: Table"
    ELSE IF \E n \in DOMAIN entries :
               entries[n][2].column \notin r[entries[n][2].table].columns
    THEN "Name not found inside r"
    ELSE IF \E n \in DOMAIN entries :
               r[entries[n][2].table].types[entries[n][2].column]
                  # t.types[entries[n][1]]
    THEN "No matching signature for operator ="
    ELSE IF \E m, n \in DOMAIN entries : t.types[entries[m][1]] # t.types[entries[n][1]]
    THEN "Column 2 in UNION ALL has incompatible types"
    ELSE ""

\* one branch: SELECT 'fk' as fk_column, fk as invalid_value, COUNT(*) as
\* occurrence_count FROM t WHERE fk IS NOT NULL AND NOT EXISTS (...) GROUP BY fk
ForeignKeyBranch(e, t, r) ==
    LET fk == e[1]
        invalid == Where(t.runs,
                      LAMBDA row : /\ ~row[fk].null
                                   /\ Unmatched(row[fk], r[e[2].table], e[2].column))
        keys == GroupKeys(invalid, {fk}, {})
    IN  [n \in DOMAIN keys |->
            Run([fk_column |-> fk,
                 invalid_value |-> keys[n][fk],
                 occurrence_count |-> Val(GroupCount(invalid, {fk}, keys[n]))], 1)]

\* the branches joined by UNION ALL
EvalReferentialIntegrity(cfg, t, r) ==
    LET entries == cfg.foreign_key_checks.v
    IN  IF ForeignKeyFault(entries, t, r) # ""
        THEN QueryRaised(ForeignKeyFault(entries, t, r))
        ELSE Fetched(Concat([n \in DOMAIN entries |-> ForeignKeyBranch(entries[n], t, r)]))

\* SUM(col) over the runs
RECURSIVE Total(_, _)
Total(runs, col) ==
    IF runs = <<>> THEN 0
    ELSE Head(runs).n * Head(runs).row[col].val + Total(Tail(runs), col)

\* the sum of the squared deviations from the mean total / n, times n * n
RECURSIVE Deviations(_, _, _, _)
Deviations(runs, col, n, total) ==
    IF runs = <<>> THEN 0
    ELSE LET d == n * Head(runs).row[col].val - total
         IN  Head(runs).n * d * d + Deviations(Tail(runs), col, n, total)

\* ABS(x - mean) > 3 * stddev for the n non-null values of sum total and
\* squared deviations (scaled by n * n) devs: STDDEV is the sample standard
\* deviation, NULL for fewer than two values; both sides are squared and
\* scaled by n * n * (n - 1) to stay within the integers
BeyondThreeSigma(x, n, total, devs) ==
    /\ n >= 2
    /\ (n * x - total) * (n * x - total) * (n - 1) > 9 * devs

\* WITH stats AS (SELECT AVG(col) as mean, STDDEV(col) as stddev FROM t
\* WHERE col IS NOT NULL) SELECT t.* FROM t, stats
\* WHERE ABS(t.col - stats.mean) > 3 * stats.stddev LIMIT 100
EvalOutlierDetection(cfg, t) ==
    LET col == cfg.outlier_columns.v[1]
        values == Where(t.runs, LAMBDA row : ~row[col].null)
        n == RowCount(values)
        total == Total(values, col)
        devs == Deviations(values, col, n, total)
    IN  IF col \notin t.columns THEN QueryRaised("Unrecognized name")
        ELSE Fetched(Limit(Where(t.runs,
                LAMBDA row : ~row[col].null /\ BeyondThreeSigma(row[col].val, n, total, devs)),
                SampleLimit))

\* bigquery.query(sql) for the SQL of template id
Execute(id, cfg, t, r) ==
    CASE id = "no_nulls_required" -> EvalNoNullsRequired(cfg, t)
      [] id = "no_duplicates_pk" -> EvalNoDuplicatesPk(cfg, t)
      [] id = "referential_integrity" -> EvalReferentialIntegrity(cfg, t, r)
      [] id = "numeric_range" -> EvalNumericRange(cfg, t)
      [] id = "date_range" -> EvalDateRange(cfg, t)
      [] id = "outlier_detection" -> EvalOutlierDetection(cfg, t)

\* --------------------------------------------- the checks run on tables
\* A mapping that configures one check, a table of the warehouse to run it
\* on and, for the foreign keys, the tables they refer to.

Int64 == "INT64"
String == "STRING"

RowsOver(columns, values) == [columns -> values]

NullTables ==
    TablesOver({"id", "name"}, RowsOver({"id", "name"}, {SqlNull, Val(1)}),
               {1, 2, SampleLimit}, MaxRuns)

KeyTables ==
    TablesOver({"id", "region"},
               {row \in RowsOver({"id", "region"}, {SqlNull, Val(1), Val(2)}) :
                    ~row["id"].null /\ row["region"] # Val(2)},
               {1, 2}, MaxRuns)

NumericTables ==
    TablesOver({"age", "price"},
               {row \in RowsOver({"age", "price"},
                                 {SqlNull, Val(-1), Val(0), Val(120), Val(121)}) :
                    row["price"] \in {Val(120), Val(121)}},
               {1, SampleLimit}, MaxRuns - 1)

DateTables ==
    TablesOver({"order_date"},
               RowsOver({"order_date"},
                        {SqlNull, Val(18261), Val(18262), Val(22279), Val(22280)}),
               {1, SampleLimit}, MaxRuns)

OutlierTables ==
    TablesOver({"amount", "quantity"},
               {row \in RowsOver({"amount", "quantity"}, {SqlNull, Val(0), Val(1)}) :
                    ~row["quantity"].null},
               {1, SampleLimit}, MaxRuns)

\* the fact table of the foreign keys, with the types of its columns
ForeignKeyTables ==
    {[columns |-> t.columns, runs |-> t.runs,
      types |-> [c \in t.columns |-> IF c = "customer_id" THEN Int64 ELSE type]] :
        t \in TablesOver({"customer_id", "product_id"},
                         {row \in RowsOver({"customer_id", "product_id"},
                                           {SqlNull, Val(1), Val(2)}) :
                              row["product_id"] # Val(1)},
                         {1, 2}, MaxRuns - 1),
        type \in {Int64, String}}

\* a referenced table: one column id holding the given values
Referenced(type, values) ==
    [columns |-> {"id"},
     types |-> [c \in {"id"} |-> type],
     runs |-> [n \in DOMAIN values |-> Run([c \in {"id"} |-> values[n]], 1)]]

\* the referenced tables: products.id has the type of the column product_id
ReferencedTables(t) ==
    {[name \in {"proj.ds.customers", "proj.ds.products"} |->
         IF name = "proj.ds.customers" THEN Referenced(Int64, customers)
         ELSE Referenced(t.types["product_id"], products)] :
        customers \in {<<>>, <<Val(1)>>, <<SqlNull, Val(1)>>},
        products \in {<<>>, <<Val(2)>>}}

NumericRangeBoth ==
    Obj(<< <<"age", NumericRange(0, 120)>>, <<"price", NumericRange(0, 120)>> >>)

\* the route handler and the form are not involved while a check runs
QueryIdle ==
    /\ body = Undefined
    /\ pc = "warehouse"
    /\ fileRowCount = 0
    /\ bqRowCount = 0
    /\ dsIdx = 0
    /\ allSchemas = <<>>
    /\ testCases = Undefined
    /\ testIdx = 0
    /\ results = <<>>
    /\ queried = <<>>
    /\ response = NoResponse
    /\ stored = NothingStored
    /\ enabledTestIds = Undefined
    /\ selected = Undefined
    /\ generated = NoCall
    /\ fetched = NotFetched
    /\ FormIdle
    /\ UiIdle

InitQuery ==
    /\ QueryIdle
    /\ \/ /\ config \in {[BareConfig EXCEPT !.required_columns = Arr(cols)] :
                            cols \in {<<"id">>, <<"id", "name">>}}
          /\ tbl \in NullTables
          /\ refs = <<>>
       \/ /\ config \in {[BareConfig EXCEPT !.primary_key_columns = Arr(cols)] :
                            cols \in {<<"id">>, <<"id", "region">>}}
          /\ tbl \in KeyTables
          /\ refs = <<>>
       \/ /\ config \in {[BareConfig EXCEPT !.numeric_range_checks = checks] :
                            checks \in {Obj(<< <<"age", NumericRange(0, 120)>> >>),
                                        NumericRangeBoth}}
          /\ tbl \in NumericTables
          /\ refs = <<>>
       \/ /\ config = [BareConfig EXCEPT !.date_range_checks =
                          Obj(<< <<"order_date", DateRange("2020-01-01", "2030-12-31")>> >>)]
          /\ tbl \in DateTables
          /\ refs = <<>>
       \/ /\ config \in {[BareConfig EXCEPT !.outlier_columns = Arr(cols)] :
                            cols \in {<<"amount">>, <<"amount", "quantity">>,
                                      <<"quantity", "amount">>}}
          /\ tbl \in OutlierTables
          /\ refs = <<>>
       \/ /\ config \in {[BareConfig EXCEPT !.foreign_key_checks = checks] :
                            checks \in {Obj(<< <<"customer_id", ForeignKey("proj.ds.customers", "id")>> >>),
                                        Obj(<< <<"customer_id", ForeignKey("proj.ds.customers", "id")>>,
                                               <<"product_id", ForeignKey("proj.ds.products", "id")>> >>)}}
          /\ tbl \in ForeignKeyTables
          /\ refs \in ReferencedTables(tbl)

\* a template that has SQL for the mapping is generated and its SQL is run
\* on the table; a template that answers null is skipped
RunTemplate ==
    /\ pc = "warehouse"
    /\ generated = NoCall
    /\ \E id \in TemplateIds :
         /\ generateSQL(id, config).k = "string"
         /\ generated' = [id |-> id, out |-> generateSQL(id, config)]
         /\ fetched' = Execute(id, config, tbl, refs)
    /\ UNCHANGED <<config, enabledTestIds, selected, tbl, refs>>
    /\ UNCHANGED routeVars
    /\ UNCHANGED <<formVars, uiVars>>

NextQuery == RunTemplate

SpecQuery == InitQuery /\ [][NextQuery]_vars

\* ------------------------------------------------ properties of the checks
\* the key combinations of the table that more than one row holds
DuplicatedKeys(t, columns) ==
    {key \in {Project(t.runs[n].row, columns) : n \in DOMAIN t.runs} :
        GroupCount(t.runs, columns, key) > 1}

\* the positions of the fetched rows that hold a key combination
FetchedFor(key, columns) ==
    {n \in DOMAIN fetched.rows : Project(fetched.rows[n].row, columns) = key}

\* C12: the primary-key check answers one row for each key combination that
\* more than one row of the table holds, carrying the number of those rows,
\* and no row for any other combination, so that the number of rows it
\* answers is the number of duplicated combinations, not of duplicate rows.
C12_OneRowPerDuplicatedKey ==
    generated.id = "no_duplicates_pk" =>
        LET columns == ColumnSet(config.primary_key_columns.v)
        IN  /\ fetched.k = "rows"
            /\ \A key \in DuplicatedKeys(tbl, columns) :
                  /\ Cardinality(FetchedFor(key, columns)) = 1
                  /\ \A n \in FetchedFor(key, columns) :
                        /\ fetched.rows[n].n = 1
                        /\ fetched.rows[n].row["duplicate_count"]
                              = Val(GroupCount(tbl.runs, columns, key))
            /\ \A n \in DOMAIN fetched.rows :
                  Project(fetched.rows[n].row, columns) \in DuplicatedKeys(tbl, columns)
            /\ RowCount(fetched.rows) = Cardinality(DuplicatedKeys(tbl, columns))

\* a composite key that three rows share next to one that a single row holds
C12_Witness ==
    /\ generated.id = "no_duplicates_pk"
    /\ Len(config.primary_key_columns.v) = 2
    /\ RowCount(tbl.runs) = 4
    /\ RowCount(fetched.rows) = 1
    /\ fetched.rows[1].row["duplicate_count"] = Val(3)

\* the number of rows of the table that a condition selects
Selected(t, cond(_)) == RowCount(Where(t.runs, cond))

Min(a, b) == IF a < b THEN a ELSE b

\* the query answered rows, every one a row of the table that satisfies the
\* condition, no row more often than the table holds it, and as many as
\* the table has such rows up to the sample limit
SampleOf(t, cond(_)) ==
    /\ fetched.k = "rows"
    /\ \A n \in DOMAIN fetched.rows :
          /\ cond(fetched.rows[n].row)
          /\ Selected([runs |-> fetched.rows], LAMBDA row : row = fetched.rows[n].row)
                <= Selected(t, LAMBDA row : row = fetched.rows[n].row)
    /\ RowCount(fetched.rows) = Min(SampleLimit, Selected(t, cond))

\* some column of the list is NULL in the row
SomeNull(row, cols) == \E n \in DOMAIN cols : row[cols[n]].null

\* C13: the required-not-null check selects a row exactly when at least one
\* of the listed columns is NULL in it (the columns are combined with OR),
\* and fetches at most 100 of the selected rows.
C13_RowSelectedIffSomeRequiredNull ==
    generated.id = "no_nulls_required" =>
        SampleOf(tbl, LAMBDA row : SomeNull(row, config.required_columns.v))

\* more than 100 rows with a NULL in one of two required columns only, next
\* to a row without NULL: 100 rows are fetched
C13_Witness ==
    /\ generated.id = "no_nulls_required"
    /\ Len(config.required_columns.v) = 2
    /\ Selected(tbl, LAMBDA row : SomeNull(row, config.required_columns.v)) > SampleLimit
    /\ Selected(tbl, LAMBDA row : ~SomeNull(row, config.required_columns.v)) > 0
    /\ RowCount(fetched.rows) = SampleLimit
    /\ \E n \in DOMAIN fetched.rows :
          ~fetched.rows[n].row["id"].null /\ fetched.rows[n].row["name"].null

\* the value is present and not within min..max, the bounds included
NotWithin(value, min, max) == ~value.null /\ ~(min <= value.val /\ value.val <= max)

\* some checked column of the row holds a number outside its range
SomeNumberOutside(row, entries) ==
    \E n \in DOMAIN entries :
        NotWithin(row[entries[n][1]], entries[n][2].min, entries[n][2].max)

\* some checked column of the row holds a date outside its range
SomeDateOutside(row, entries) ==
    \E n \in DOMAIN entries :
        NotWithin(row[entries[n][1]], DayNumber(entries[n][2].min_date),
                  DayNumber(entries[n][2].max_date))

\* C14: a numeric or date range check selects a row exactly when some checked
\* column holds a value strictly below its minimum or strictly above its
\* maximum; a value equal to a bound is within the range, and the
\* conditions of several entries are combined with OR.
C14_RangeFlagsStrictlyOutside ==
    /\ generated.id = "numeric_range" =>
          SampleOf(tbl, LAMBDA row : SomeNumberOutside(row, config.numeric_range_checks.v))
    /\ generated.id = "date_range" =>
          SampleOf(tbl, LAMBDA row : SomeDateOutside(row, config.date_range_checks.v))

\* two ranges are checked; a row on both bounds is not fetched while a row
\* inside the first range and above the second is
C14_Witness ==
    /\ generated.id = "numeric_range"
    /\ Len(config.numeric_range_checks.v) = 2
    /\ \E n \in DOMAIN tbl.runs :
          tbl.runs[n].row = [c \in {"age", "price"} |-> IF c = "age" THEN Val(0) ELSE Val(120)]
    /\ RowCount(fetched.rows) = 1
    /\ fetched.rows[1].row["age"] = Val(120)
    /\ fetched.rows[1].row["price"] = Val(121)

\* a date on the minimum is not fetched, the day before it is
C14_WitnessDate ==
    /\ generated.id = "date_range"
    /\ \E n \in DOMAIN tbl.runs : tbl.runs[n].row["order_date"] = Val(18262)
    /\ RowCount(fetched.rows) = 1
    /\ fetched.rows[1].row["order_date"] = Val(18261)

\* the rows of the table that hold value in the column fk
Occurrences(t, fk, value) == Selected(t, LAMBDA row : row[fk] = value)

\* the non-null values of the foreign key of entry e that no row of the
\* referenced table holds in the referenced column
UnmatchedValues(e, t, r) ==
    {value \in {t.runs[n].row[e[1]] : n \in DOMAIN t.runs} :
        /\ ~value.null
        /\ \A n \in DOMAIN r[e[2].table].runs :
              r[e[2].table].runs[n].row[e[2].column] # value}

\* the fetched rows are, for every declared foreign key, one row for each
\* unmatched value with the number of rows that hold it, and nothing else
ReportsUnmatched(entries, t, r) ==
    /\ fetched.k = "rows"
    /\ \A n \in DOMAIN entries :
          \A value \in UnmatchedValues(entries[n], t, r) :
              Cardinality({m \in DOMAIN fetched.rows :
                  fetched.rows[m] =
                      Run([fk_column |-> entries[n][1],
                           invalid_value |-> value,
                           occurrence_count |->
                               Val(Occurrences(t, entries[n][1], value))], 1)}) = 1
    /\ \A m \in DOMAIN fetched.rows :
          \E n \in DOMAIN entries :
              /\ fetched.rows[m].row.fk_column = entries[n][1]
              /\ fetched.rows[m].row.invalid_value \in UnmatchedValues(entries[n], t, r)

\* C15: for each declared foreign key, every distinct non-null value of the
\* column without a match in the referenced column yields exactly one row
\* with its occurrence count, NULL values are never reported, and with
\* several foreign keys the one combined check holds the rows of all.
C15_EveryUnmatchedValueReported ==
    generated.id = "referential_integrity" =>
        ReportsUnmatched(config.foreign_key_checks.v, tbl, refs)

\* the claim holds where the foreign-key columns have one type
C15_HoldsForOneType ==
    (/\ generated.id = "referential_integrity"
     /\ \A c \in tbl.columns : tbl.types[c] = Int64) =>
        ReportsUnmatched(config.foreign_key_checks.v, tbl, refs)

\* two foreign keys of different types, each with an unmatched value: the
\* combined statement fails and reports neither
C15_MixedTypesRaise ==
    /\ generated.id = "referential_integrity"
    /\ Len(config.foreign_key_checks.v) = 2
    /\ tbl.types["product_id"] = String
    /\ \A n \in DOMAIN config.foreign_key_checks.v :
          UnmatchedValues(config.foreign_key_checks.v[n], tbl, refs) # {}
    /\ fetched.k = "raise"

\* the mapping with only the first outlier column declared
FirstOutlierColumnOnly(cfg) ==
    [cfg EXCEPT !.outlier_columns = Arr(<<cfg.outlier_columns.v[1]>>)]

\* the rows further than 3 standard deviations from the mean of the
\* non-null values of column col: with n values of sum total,
\* (x - total / n)^2 > 9 * SUM((y - total / n)^2) / (n - 1)
FarFromMean(row, t, col) ==
    LET values == Where(t.runs, LAMBDA other : ~other[col].null)
        n == RowCount(values)
        total == Total(values, col)
    IN  /\ ~row[col].null
        /\ n >= 2
        /\ (n * row[col].val - total) * (n * row[col].val - total) * (n - 1)
              > 9 * Deviations(values, col, n, total)

\* C16: only the first declared outlier column is evaluated: the SQL for a
\* list of two or more columns is the SQL for the list of its first column
\* alone, and the rows it answers are rows whose value in that column is
\* more than 3 standard deviations away from the mean of its non-null values.
C16_OnlyFirstOutlierColumn ==
    generated.id = "outlier_detection" =>
        /\ generated.out = outlier_detection(FirstOutlierColumnOnly(config))
        /\ SampleOf(tbl, LAMBDA row : FarFromMean(row, tbl, config.outlier_columns.v[1]))

\* two columns are declared, the second holds an outlier too, and only the
\* outlier of the first is fetched
C16_Witness ==
    /\ generated.id = "outlier_detection"
    /\ config.outlier_columns.v = <<"amount", "quantity">>
    /\ \E n \in DOMAIN tbl.runs : FarFromMean(tbl.runs[n].row, tbl, "quantity")
    /\ RowCount(fetched.rows) = 1
    /\ fetched.rows[1].row["amount"] = Val(1)
    /\ ~FarFromMean(fetched.rows[1].row, tbl, "quantity")

\* ======================================== slowly changing dimensions (SCD)
\* The mock tables and configurations of setup_scd_resources.sql, and the
\* checks of the SCD engine on them.  A timestamp is the number of its day
\* counted from 1970-01-01; the open end 2099-12-31 23:59:59 is the day
\* 2099-12-31, which no other timestamp of the data falls on.
Timestamp(literal) ==
    CASE literal = "2023-01-01 00:00:00" -> 19358
      [] literal = "2023-03-01 00:00:00" -> 19417
      [] literal = "2023-05-01 00:00:00" -> 19478
      [] literal = "2023-06-01 00:00:00" -> 19509
      [] literal = "2023-07-01 00:00:00" -> 19539
      [] literal = "2023-08-01 00:00:00" -> 19570
      [] literal = "2023-12-01 00:00:00" -> 19692
      [] literal = "2099-12-31 23:59:59" -> 47481

Seat(TableId, PositionIDX, DWSeatID) ==
    Run([TableId |-> TableId, PositionIDX |-> PositionIDX, DWSeatID |-> DWSeatID], 1)

SeatColumns == {"TableId", "PositionIDX", "DWSeatID"}

\* fault for sensitivity: the duplicate of (101, 1) left out
D_Seat_WD_NoDuplicate ==
    [columns |-> SeatColumns,
     runs |-> <<Seat(Val(101), Val(1), Val(1001)),
                Seat(Val(102), Val(2), Val(1003)),
                Seat(Val(103), SqlNull, Val(1004))>>]

D_Seat_WD ==
    [columns |-> SeatColumns,
     runs |-> <<Seat(Val(101), Val(1), Val(1001)),
                Seat(Val(101), Val(1), Val(1002)),
                Seat(Val(102), Val(2), Val(1003)),
                Seat(Val(103), SqlNull, Val(1004))>>]

Employee(UserId, DWEmployeeID, begin, end, flag) ==
    Run([UserId |-> Val(UserId), DWEmployeeID |-> Val(DWEmployeeID),
         DWBeginEffDateTime |-> Val(begin), DWEndEffDateTime |-> Val(end),
         DWCurrentRowFlag |-> Val(flag)], 1)

EmployeeColumns ==
    {"UserId", "DWEmployeeID", "DWBeginEffDateTime", "DWEndEffDateTime", "DWCurrentRowFlag"}

OpenEnd == Timestamp("2099-12-31 23:59:59")

\* fault for sensitivity: the second row of U5 begins where the first ends
D_Employee_WD_NoGap ==
    [columns |-> EmployeeColumns,
     runs |-> <<Employee("U1", 5001, Timestamp("2023-01-01 00:00:00"), Timestamp("2023-06-01 00:00:00"), "N"),
                Employee("U1", 5002, Timestamp("2023-06-01 00:00:00"), OpenEnd, "Y"),
                Employee("U2", 5003, Timestamp("2023-01-01 00:00:00"), Timestamp("2023-08-01 00:00:00"), "N"),
                Employee("U2", 5004, Timestamp("2023-07-01 00:00:00"), OpenEnd, "Y"),
                Employee("U3", 5005, Timestamp("2023-01-01 00:00:00"), OpenEnd, "Y"),
                Employee("U3", 5006, Timestamp("2023-06-01 00:00:00"), OpenEnd, "Y"),
                Employee("U4", 5007, Timestamp("2023-12-01 00:00:00"), Timestamp("2023-01-01 00:00:00"), "Y"),
                Employee("U5", 5008, Timestamp("2023-01-01 00:00:00"), Timestamp("2023-03-01 00:00:00"), "N"),
                Employee("U5", 5009, Timestamp("2023-03-01 00:00:00"), OpenEnd, "Y")>>]

\* fault for sensitivity: the first row of U3 not flagged current
D_Employee_WD_OneCurrent ==
    [columns |-> EmployeeColumns,
     runs |-> <<Employee("U1", 5001, Timestamp("2023-01-01 00:00:00"), Timestamp("2023-06-01 00:00:00"), "N"),
                Employee("U1", 5002, Timestamp("2023-06-01 00:00:00"), OpenEnd, "Y"),
                Employee("U2", 5003, Timestamp("2023-01-01 00:00:00"), Timestamp("2023-08-01 00:00:00"), "N"),
                Employee("U2", 5004, Timestamp("2023-07-01 00:00:00"), OpenEnd, "Y"),
                Employee("U3", 5005, Timestamp("2023-01-01 00:00:00"), OpenEnd, "N"),
                Employee("U3", 5006, Timestamp("2023-06-01 00:00:00"), OpenEnd, "Y"),
                Employee("U4", 5007, Timestamp("2023-12-01 00:00:00"), Timestamp("2023-01-01 00:00:00"), "Y"),
                Employee("U5", 5008, Timestamp("2023-01-01 00:00:00"), Timestamp("2023-03-01 00:00:00"), "N"),
                Employee("U5", 5009, Timestamp("2023-05-01 00:00:00"), OpenEnd, "Y")>>]

D_Employee_WD ==
    [columns |-> EmployeeColumns,
     runs |-> <<Employee("U1", 5001, Timestamp("2023-01-01 00:00:00"), Timestamp("2023-06-01 00:00:00"), "N"),
                Employee("U1", 5002, Timestamp("2023-06-01 00:00:00"), OpenEnd, "Y"),
                Employee("U2", 5003, Timestamp("2023-01-01 00:00:00"), Timestamp("2023-08-01 00:00:00"), "N"),
                Employee("U2", 5004, Timestamp("2023-07-01 00:00:00"), OpenEnd, "Y"),
                Employee("U3", 5005, Timestamp("2023-01-01 00:00:00"), OpenEnd, "Y"),
                Employee("U3", 5006, Timestamp("2023-06-01 00:00:00"), OpenEnd, "Y"),
                Employee("U4", 5007, Timestamp("2023-12-01 00:00:00"), Timestamp("2023-01-01 00:00:00"), "Y"),
                Employee("U5", 5008, Timestamp("2023-01-01 00:00:00"), Timestamp("2023-03-01 00:00:00"), "N"),
                Employee("U5", 5009, Timestamp("2023-05-01 00:00:00"), OpenEnd, "Y")>>]

\* the rows of scd_validation_config
seat_scd1 ==
    [config_id |-> "seat_scd1", target_table |-> "D_Seat_WD", scd_type |-> "scd1",
     natural_keys |-> Arr(<<"TableId", "PositionIDX">>), surrogate_key |-> "DWSeatID",
     begin_date_column |-> Null, end_date_column |-> Null, active_flag_column |-> Null]

employee_scd2 ==
    [config_id |-> "employee_scd2", target_table |-> "D_Employee_WD", scd_type |-> "scd2",
     natural_keys |-> Arr(<<"UserId">>), surrogate_key |-> "DWEmployeeID",
     begin_date_column |-> Str(<<"DWBeginEffDateTime">>),
     end_date_column |-> Str(<<"DWEndEffDateTime">>),
     active_flag_column |-> Str(<<"DWCurrentRowFlag">>)]

\* ------------------------------------------------- the checks of the engine
\* the natural key of a row
NaturalKey(cfg, row) == Project(row, ColumnSet(cfg.natural_keys.v))

\* the flagged keys as rows, in order of first appearance in the table
FlaggedKeys(cfg, t, flagged) ==
    LET keys == SelectSeq(GroupKeys(t.runs, ColumnSet(cfg.natural_keys.v), {}),
                          LAMBDA key : key \in flagged)
    IN  Fetched([n \in DOMAIN keys |-> Run(keys[n], 1)])

\* the positions of the rows of a natural key
RowsOfKey(cfg, t, key) ==
    {n \in DOMAIN t.runs : NaturalKey(cfg, t.runs[n].row) = key}

\* scd1_primary_key_unique: the natural-key combinations of more than one row
scd1_primary_key_unique(cfg, t) ==
    FlaggedKeys(cfg, t,
        {key \in {NaturalKey(cfg, t.runs[n].row) : n \in DOMAIN t.runs} :
            GroupCount(t.runs, ColumnSet(cfg.natural_keys.v), key) > 1})

\* scd1_primary_key_null: the rows with a NULL in a natural-key column
scd1_primary_key_null(cfg, t) ==
    Fetched(Where(t.runs, LAMBDA row : SomeNull(row, cfg.natural_keys.v)))

\* the orders of the rows of a key by begin date; rows of one begin date
\* may come in either order
OrdersByBeginDate(cfg, t, key) ==
    LET rows == RowsOfKey(cfg, t, key)
        begin(n) == t.runs[n].row[cfg.begin_date_column.v[1]].val
    IN  {order \in [1..Cardinality(rows) -> rows] :
            /\ \A i, j \in DOMAIN order : i # j => order[i] # order[j]
            /\ \A i, j \in DOMAIN order : i < j => begin(order[i]) <= begin(order[j])}

\* a row of the order whose successor does not begin where the row ends
Broken(cfg, t, order) ==
    \E i \in DOMAIN order :
        /\ i + 1 \in DOMAIN order
        /\ t.runs[order[i + 1]].row[cfg.begin_date_column.v[1]]
              # t.runs[order[i]].row[cfg.end_date_column.v[1]]

\* scd2_continuity: the keys with a row whose successor, by begin date within
\* the key, does not begin where the row ends; one set of keys for every way
\* of ordering rows of equal begin date
scd2_continuity(cfg, t) ==
    LET keys == {NaturalKey(cfg, t.runs[n].row) : n \in DOMAIN t.runs}
    IN  {FlaggedKeys(cfg, t, flagged) : flagged \in
            {some \in SUBSET keys :
                /\ \A key \in some :
                      \E order \in OrdersByBeginDate(cfg, t, key) : Broken(cfg, t, order)
                /\ \A key \in keys \ some :
                      \E order \in OrdersByBeginDate(cfg, t, key) : ~Broken(cfg, t, order)}}

\* the value of the active flag that marks the current row
CurrentFlag == Val("Y")

\* scd2_one_current_row: the keys whose rows flagged current are not one
scd2_one_current_row(cfg, t) ==
    FlaggedKeys(cfg, t,
        {key \in {NaturalKey(cfg, t.runs[n].row) : n \in DOMAIN t.runs} :
            Cardinality({n \in RowsOfKey(cfg, t, key) :
                t.runs[n].row[cfg.active_flag_column.v[1]] = CurrentFlag}) # 1})

\* ------------------------------------------------------ SCD: Init, Next
\* tables of the shape of D_Seat_WD
SeatTables ==
    TablesOver(SeatColumns,
               {Seat(Val(TableId), PositionIDX, Val(1001)).row :
                    TableId \in {101, 102}, PositionIDX \in {SqlNull, Val(1)}},
               {1}, MaxRuns)

\* tables of the shape of D_Employee_WD: histories of up to three intervals,
\* and rows that differ in the current flag only
EmployeeTables ==
    TablesOver(EmployeeColumns,
               {Employee(UserId, 5001, begin, end, "Y").row :
                    UserId \in {"U1", "U2"}, begin \in {1, 2, 3}, end \in {2, 3}},
               {1}, MaxRuns)
    \cup
    TablesOver(EmployeeColumns,
               {Employee(UserId, 5001, 1, 2, flag).row :
                    UserId \in {"U1", "U2"}, flag \in {"Y", "N"}},
               {1}, MaxRuns)

ScdIdle ==
    /\ body = Undefined
    /\ pc = "scd"
    /\ fileRowCount = 0
    /\ bqRowCount = 0
    /\ dsIdx = 0
    /\ allSchemas = <<>>
    /\ testCases = Undefined
    /\ testIdx = 0
    /\ results = <<>>
    /\ queried = <<>>
    /\ response = NoResponse
    /\ stored = NothingStored
    /\ enabledTestIds = Undefined
    /\ selected = Undefined
    /\ generated = NoCall
    /\ fetched = NotFetched
    /\ refs = <<>>
    /\ FormIdle
    /\ UiIdle

InitScd ==
    /\ ScdIdle
    /\ \/ config = seat_scd1 /\ tbl \in {D_Seat_WD} \cup SeatTables
       \/ config = employee_scd2 /\ tbl \in {D_Employee_WD} \cup EmployeeTables

ScdUnchanged ==
    /\ UNCHANGED <<config, enabledTestIds, selected, tbl, refs>>
    /\ UNCHANGED routeVars
    /\ UNCHANGED <<formVars, uiVars>>

RunPrimaryKeyUnique ==
    /\ pc = "scd"
    /\ generated = NoCall
    /\ config.scd_type = "scd1"
    /\ generated' = [id |-> "scd1_primary_key_unique", out |-> Null]
    /\ fetched' = scd1_primary_key_unique(config, tbl)
    /\ ScdUnchanged

RunPrimaryKeyNull ==
    /\ pc = "scd"
    /\ generated = NoCall
    /\ config.scd_type = "scd1"
    /\ generated' = [id |-> "scd1_primary_key_null", out |-> Null]
    /\ fetched' = scd1_primary_key_null(config, tbl)
    /\ ScdUnchanged

RunContinuity ==
    /\ pc = "scd"
    /\ generated = NoCall
    /\ config.scd_type = "scd2"
    /\ generated' = [id |-> "scd2_continuity", out |-> Null]
    /\ fetched' \in scd2_continuity(config, tbl)
    /\ ScdUnchanged

RunOneCurrentRow ==
    /\ pc = "scd"
    /\ generated = NoCall
    /\ config.scd_type = "scd2"
    /\ generated' = [id |-> "scd2_one_current_row", out |-> Null]
    /\ fetched' = scd2_one_current_row(config, tbl)
    /\ ScdUnchanged

NextScd ==
    \/ RunPrimaryKeyUnique
    \/ RunPrimaryKeyNull
    \/ RunContinuity
    \/ RunOneCurrentRow

SpecScd == InitScd /\ [][NextScd]_vars

\* ---------------------------------------------- properties of the SCD checks
\* the natural keys of the fetched rows
FetchedKeys == {fetched.rows[n].row : n \in DOMAIN fetched.rows}

BeginOf(n) == tbl.runs[n].row["DWBeginEffDateTime"].val
EndOf(n) == tbl.runs[n].row["DWEndEffDateTime"].val

\* row s may directly follow row r of the same key: it does not begin
\* before r and no third row of the key begins strictly between the two
MayFollow(rows, r, s) ==
    /\ r # s
    /\ BeginOf(r) <= BeginOf(s)
    /\ ~\E u \in rows : BeginOf(r) < BeginOf(u) /\ BeginOf(u) < BeginOf(s)

\* some row of the key is followed by a row that begins elsewhere than it ends
SuccessorElsewhere(rows) ==
    \E r, s \in rows : MayFollow(rows, r, s) /\ BeginOf(s) # EndOf(r)

\* the rows of the key begin at different dates, so that their order is fixed
DistinctBegins(rows) == \A r, s \in rows : r # s => BeginOf(r) # BeginOf(s)

UserKey(UserId) == [c \in {"UserId"} |-> Val(UserId)]

C17_WitnessChain ==
    /\ generated.id = "scd2_continuity"
    /\ Cardinality(RowsOfKey(config, tbl, UserKey("U1"))) = 3
    /\ DistinctBegins(RowsOfKey(config, tbl, UserKey("U1")))
    /\ \E r, s \in RowsOfKey(config, tbl, UserKey("U1")) :
          BeginOf(r) < BeginOf(s) /\ BeginOf(s) # EndOf(r)
    /\ FetchedKeys = {}

CurrentRows(rows) == {n \in rows : tbl.runs[n].row["DWCurrentRowFlag"] = Val("Y")}

C18_WitnessNoCurrentRow ==
    /\ generated.id = "scd2_one_current_row"
    /\ CurrentRows(RowsOfKey(config, tbl, UserKey("U1"))) = {}
    /\ Cardinality(CurrentRows(RowsOfKey(config, tbl, UserKey("U2")))) = 1
    /\ FetchedKeys = {UserKey("U1")}

SeatKey(TableId, PositionIDX) ==
    [c \in {"TableId", "PositionIDX"} |-> IF c = "TableId" THEN TableId ELSE PositionIDX]

C19_WitnessNull ==
    /\ generated.id = "scd1_primary_key_null"
    /\ tbl = D_Seat_WD
    /\ Len(fetched.rows) = 1

\* ================================================== the SCD form (dashboard)
\* The state of DashboardForm in comparison mode scd: the direct inputs, the
\* inputs of a new configuration, and the request in flight.  Text inputs
\* hold a string, written as its sequence of chunks: <<>> is the empty string.

\* what the user types into an input: nothing, or a name
Typed(name) == {<<>>, <<name>>}

\* the state after construction, with the target of the guide filled in
InitialForm ==
    [scdMode |-> "direct",
     scdType |-> "scd2",
     targetDataset |-> <<"crown_scd_mock">>,
     targetTable |-> <<"D_Employee_WD">>,
     primaryKeys |-> <<>>,
     beginDateColumn |-> <<"DWBeginEffDateTime">>,
     endDateColumn |-> <<"DWEndEffDateTime">>,
     activeFlagColumn |-> <<"DWCurrentRowFlag">>,
     showAddConfig |-> FALSE,
     newConfigId |-> <<>>,
     newTargetDataset |-> <<>>,
     newTargetTable |-> <<>>,
     newScdType |-> "scd2",
     newPrimaryKeys |-> <<>>,
     newBeginDateColumn |-> <<"DWBeginEffDateTime">>,
     newEndDateColumn |-> <<"DWEndEffDateTime">>,
     newActiveFlagColumn |-> <<"DWCurrentRowFlag">>]

\* the direct inputs are shown
DirectShown == payload = Undefined /\ form.scdMode = "direct"

\* the inputs of a new configuration are shown
AddConfigShown == payload = Undefined /\ form.scdMode = "config" /\ form.showAddConfig

FormUnchanged ==
    /\ UNCHANGED <<config, enabledTestIds, selected, generated>>
    /\ UNCHANGED routeVars
    /\ UNCHANGED <<warehouseVars, uiVars>>

\* an edit leaves the request alone
Edit(f) == form' = f /\ UNCHANGED payload /\ FormUnchanged

SetScdMode ==
    /\ payload = Undefined
    /\ \E mode \in {"direct", "config"} : Edit([form EXCEPT !.scdMode = mode])

SetShowAddConfig ==
    /\ payload = Undefined
    /\ form.scdMode = "config"
    /\ Edit([form EXCEPT !.showAddConfig = ~form.showAddConfig])

SetScdType ==
    /\ DirectShown
    /\ \E type \in {"scd1", "scd2"} : Edit([form EXCEPT !.scdType = type])

SetPrimaryKeys ==
    /\ DirectShown
    /\ \E value \in Typed("UserId") : Edit([form EXCEPT !.primaryKeys = value])

SetBeginDateColumn ==
    /\ DirectShown
    /\ form.scdType = "scd2"
    /\ \E value \in Typed("DWBeginEffDateTime") :
          Edit([form EXCEPT !.beginDateColumn = value])

SetEndDateColumn ==
    /\ DirectShown
    /\ form.scdType = "scd2"
    /\ \E value \in Typed("DWEndEffDateTime") :
          Edit([form EXCEPT !.endDateColumn = value])

SetActiveFlagColumn ==
    /\ DirectShown
    /\ form.scdType = "scd2"
    /\ \E value \in Typed("DWCurrentRowFlag") :
          Edit([form EXCEPT !.activeFlagColumn = value])

SetNewConfigId ==
    /\ AddConfigShown
    /\ \E value \in Typed("temp_test_config") : Edit([form EXCEPT !.newConfigId = value])

SetNewTargetDataset ==
    /\ AddConfigShown
    /\ \E value \in Typed("crown_scd_mock") :
          Edit([form EXCEPT !.newTargetDataset = value])

SetNewTargetTable ==
    /\ AddConfigShown
    /\ \E value \in Typed("D_Employee_WD") : Edit([form EXCEPT !.newTargetTable = value])

SetNewScdType ==
    /\ AddConfigShown
    /\ \E type \in {"scd1", "scd2"} : Edit([form EXCEPT !.newScdType = type])

SetNewPrimaryKeys ==
    /\ AddConfigShown
    /\ \E value \in Typed("UserId") : Edit([form EXCEPT !.newPrimaryKeys = value])

SetNewBeginDateColumn ==
    /\ AddConfigShown
    /\ form.newScdType = "scd2"
    /\ \E value \in Typed("DWBeginEffDateTime") :
          Edit([form EXCEPT !.newBeginDateColumn = value])

SetNewEndDateColumn ==
    /\ AddConfigShown
    /\ form.newScdType = "scd2"
    /\ \E value \in Typed("DWEndEffDateTime") :
          Edit([form EXCEPT !.newEndDateColumn = value])

SetNewActiveFlagColumn ==
    /\ AddConfigShown
    /\ form.newScdType = "scd2"
    /\ \E value \in Typed("DWCurrentRowFlag") :
          Edit([form EXCEPT !.newActiveFlagColumn = value])

\* the body of a request: the endpoint and the fields of the SCD configuration
Payload(endpoint, comparison_mode, scd_type, begin, end, flag) ==
    [k |-> "object", endpoint |-> endpoint, comparison_mode |-> comparison_mode,
     scd_type |-> scd_type, begin_date_column |-> begin,
     end_date_column |-> end, active_flag_column |-> flag]

\* the payload handleSubmit builds in comparison mode scd
SubmitPayload(f) ==
    IF f.scdMode = "direct"
    THEN Payload("/api/generate-tests", "scd", Str(<<f.scdType>>),
                 IF f.scdType = "scd2" THEN Str(f.beginDateColumn) ELSE Undefined,
                 IF f.scdType = "scd2" THEN Str(f.endDateColumn) ELSE Undefined,
                 IF f.scdType = "scd2" THEN Str(f.activeFlagColumn) ELSE Undefined)
    ELSE Payload("/api/generate-tests", "scd-config", Undefined,
                 Undefined, Undefined, Undefined)

\* handleSubmit up to the fetch: without the required direct inputs it throws
\* and alerts, and nothing is sent
HandleSubmit ==
    /\ payload = Undefined
    /\ ~(form.scdMode = "direct"
         /\ (form.targetDataset = <<>> \/ form.targetTable = <<>> \/ form.primaryKeys = <<>>))
    /\ payload' = SubmitPayload(form)
    /\ UNCHANGED form
    /\ FormUnchanged

\* the payload handleAddConfig builds
AddConfigPayload(f) ==
    Payload("/api/scd-config", Undefined, Str(<<f.newScdType>>),
            IF f.newScdType = "scd2" THEN Str(f.newBeginDateColumn) ELSE Null,
            IF f.newScdType = "scd2" THEN Str(f.newEndDateColumn) ELSE Null,
            IF f.newScdType = "scd2" THEN Str(f.newActiveFlagColumn) ELSE Null)

\* handleAddConfig up to the fetch: without the required inputs it alerts
\* and returns
HandleAddConfig ==
    /\ AddConfigShown
    /\ ~(form.newConfigId = <<>> \/ form.newTargetDataset = <<>>
         \/ form.newTargetTable = <<>> \/ form.newPrimaryKeys = <<>>)
    /\ payload' = AddConfigPayload(form)
    /\ UNCHANGED form
    /\ FormUnchanged

\* the backend answers the submission, with or without success
SubmitAnswered ==
    /\ payload # Undefined
    /\ payload.endpoint = "/api/generate-tests"
    /\ payload' = Undefined
    /\ UNCHANGED form
    /\ FormUnchanged

\* the backend answers the save; after a success the form is reset
AddConfigAnswered ==
    /\ payload # Undefined
    /\ payload.endpoint = "/api/scd-config"
    /\ payload' = Undefined
    /\ \E ok \in BOOLEAN :
          form' = IF ok
                  THEN [form EXCEPT !.showAddConfig = FALSE,
                                    !.newConfigId = <<>>,
                                    !.newTargetDataset = <<>>,
                                    !.newTargetTable = <<>>,
                                    !.newPrimaryKeys = <<>>]
                  ELSE form
    /\ FormUnchanged

InitForm ==
    /\ body = Undefined
    /\ pc = "form"
    /\ fileRowCount = 0
    /\ bqRowCount = 0
    /\ dsIdx = 0
    /\ allSchemas = <<>>
    /\ testCases = Undefined
    /\ testIdx = 0
    /\ results = <<>>
    /\ queried = <<>>
    /\ response = NoResponse
    /\ stored = NothingStored
    /\ config = BareConfig
    /\ enabledTestIds = Undefined
    /\ selected = Undefined
    /\ generated = NoCall
    /\ WarehouseIdle
    /\ UiIdle
    /\ form = InitialForm
    /\ payload = Undefined

NextForm ==
    \/ SetScdMode
    \/ SetShowAddConfig
    \/ SetScdType
    \/ SetPrimaryKeys
    \/ SetBeginDateColumn
    \/ SetEndDateColumn
    \/ SetActiveFlagColumn
    \/ SetNewConfigId
    \/ SetNewTargetDataset
    \/ SetNewTargetTable
    \/ SetNewScdType
    \/ SetNewPrimaryKeys
    \/ SetNewBeginDateColumn
    \/ SetNewEndDateColumn
    \/ SetNewActiveFlagColumn
    \/ HandleSubmit
    \/ HandleAddConfig
    \/ SubmitAnswered
    \/ AddConfigAnswered

SpecForm == InitForm /\ [][NextForm]_vars

\* a column name that is sent: a string that is not empty
Defined(column) == column.k = "string" /\ column.v # <<>>

\* a column that is not sent: left out of the body, or null
NotSent(column) == column.k \in {"undefined", "null"}

\* C20: every SCD configuration the form submits or saves has, for scd2, all
\* three temporal columns defined and non-empty and, for scd1, none of them
\* sent, whatever the type toggle and the column inputs were edited to.
C20_PayloadSatisfiesTypeInvariant ==
    (payload # Undefined /\ payload.scd_type # Undefined) =>
        /\ payload.scd_type = Str(<<"scd2">>) =>
              /\ Defined(payload.begin_date_column)
              /\ Defined(payload.end_date_column)
              /\ Defined(payload.active_flag_column)
        /\ payload.scd_type = Str(<<"scd1">>) =>
              /\ NotSent(payload.begin_date_column)
              /\ NotSent(payload.end_date_column)
              /\ NotSent(payload.active_flag_column)

\* the half of C20 that holds: an scd1 configuration carries no temporal column
C20_Scd1SendsNoTemporalColumn ==
    (payload # Undefined /\ payload.scd_type = Str(<<"scd1">>)) =>
        /\ NotSent(payload.begin_date_column)
        /\ NotSent(payload.end_date_column)
        /\ NotSent(payload.active_flag_column)

\* an scd2 configuration is saved with an empty begin date column
C20_EmptyColumnSaved ==
    /\ payload # Undefined
    /\ payload.endpoint = "/api/scd-config"
    /\ payload.scd_type = Str(<<"scd2">>)
    /\ payload.begin_date_column = Str(<<>>)

\* =============================================== queries generated again
\* A caller asks the template it asked before for its SQL once more; the
\* config is the one of the first call.
InitRegenerate ==
    /\ InitRegistry
    /\ enabledTestIds = Undefined

Regenerate ==
    /\ pc = "registry"
    /\ generated # NoCall
    /\ regenerated = NoCall
    /\ regenerated' = [id |-> generated.id, out |-> generateSQL(generated.id, config)]
    /\ UNCHANGED <<config, enabledTestIds, selected, generated, refetched, viewVars>>
    /\ UNCHANGED routeVars
    /\ UNCHANGED <<warehouseVars, formVars>>

NextRegenerate ==
    \/ GenerateSQL
    \/ Regenerate

SpecRegenerate == InitRegenerate /\ [][NextRegenerate]_vars

ScanOrders(runs) ==
    {[n \in DOMAIN runs |-> runs[order[n]]] :
        order \in {f \in [DOMAIN runs -> DOMAIN runs] :
                      \A m, n \in DOMAIN runs : m # n => f[m] # f[n]}}

\* fault for sensitivity: the copies of the first row counted
CheckOutcomeFirstRow(answer) ==
    [status |-> IF answer.k = "raise" THEN "ERROR"
                ELSE IF RowCount(answer.rows) = 0 THEN "PASS" ELSE "FAIL",
     rows_affected |-> IF answer.k = "raise" \/ answer.rows = <<>> THEN 0
                       ELSE Head(answer.rows).n]

\* status and rows_affected of a result, from what the query answered:
\* rows.length === 0 ? "PASS" : "FAIL" and rows.length, or "ERROR" and 0
CheckOutcome(answer) ==
    [status |-> IF answer.k = "raise" THEN "ERROR"
                ELSE IF RowCount(answer.rows) = 0 THEN "PASS" ELSE "FAIL",
     rows_affected |-> IF answer.k = "raise" THEN 0 ELSE RowCount(answer.rows)]

ReExecute ==
    /\ pc = "warehouse"
    /\ fetched # NotFetched
    /\ refetched = NotFetched
    /\ refetched' \in {Execute(generated.id, config, [tbl EXCEPT !.runs = order], refs) :
                          order \in ScanOrders(tbl.runs)}
    /\ UNCHANGED <<config, enabledTestIds, selected, generated, regenerated, viewVars>>
    /\ UNCHANGED <<tbl, refs, fetched>>
    /\ UNCHANGED routeVars
    /\ UNCHANGED formVars

NextReExecute ==
    \/ RunTemplate
    \/ ReExecute

SpecReExecute == InitQuery /\ [][NextReExecute]_vars

ExecutedSoFar ==
    LET Executed(test) == IsGcsMode(body) => ~SkipsTest(test)
    IN  SelectSeq(SubSeq(testCases.v, 1, testIdx - 1), Executed)

\* C23: the results follow the declaration order of the tests: in gcs mode
\* the row count result comes first, and the results after it are those of
\* the executed tests in the order of the test list, whichever of them pass,
\* fail or raise.
C23_ResultsInDeclarationOrder ==
    testCases.k = "array" =>
       /\ Len(results) = ResultOffset + Len(ExecutedSoFar)
       /\ IsGcsMode(body) => results[1] = RowCountResult(fileRowCount, bqRowCount)
       /\ \A i \in DOMAIN ExecutedSoFar :
             /\ ResultOf(i).test_name = ExecutedSoFar[i].test_name
             /\ ResultOf(i).sql_query = ExecutedSoFar[i].sql_query
       /\ Finished => response.results = Arr(results)

\* a finished gcs run whose three tests raised, failed and passed in turn
C23_Witness ==
    /\ pc = "done"
    /\ IsGcsMode(body)
    /\ testCases.k = "array"
    /\ Len(results) = 4
    /\ results[2].status = "ERROR"
    /\ results[3].status = "FAIL"
    /\ results[4].status = "PASS"
    /\ results[4].test_name = Present("test3")

\* a finished schema run whose first test failed and whose second passed
C23_WitnessSchema ==
    /\ pc = "done"
    /\ ~IsGcsMode(body)
    /\ testCases.k = "array"
    /\ Len(results) = 3
    /\ results[1].status = "FAIL"
    /\ results[2].status = "PASS"
    /\ results[1].test_name = Present("test1")

\* ========================================================= sample rows
\* A result reaches the results view with the sample rows its producer kept.
\* The handler of route.ts keeps none; the execution engine behind the
\* backend keeps up to ten of the returned rows of a failed check.

\* the most rows a query returns here
MaxReturned == 12

\* "Sample problematic rows (max 10)"
MaxSampleRows == 10

SampleOutcomes ==
    {Returned(n) : n \in 0..MaxReturned} \cup {Raised(m) : m \in ErrorMessages}

\* test.sample_data: a property that is not there reads as undefined
SampleData(test) ==
    IF "sample_data" \in DOMAIN test THEN test.sample_data ELSE Undefined

\* fault for sensitivity: every returned row kept
EngineResultAllRows(test, out) ==
    [test_name |-> test.test_name,
     description |-> test.description,
     status |-> IF out.k = "raise" THEN "ERROR"
                ELSE IF Len(out.rows) = 0 THEN "PASS" ELSE "FAIL",
     severity |-> test.severity,
     sql_query |-> test.sql_query,
     rows_affected |-> Len(out.rows),
     sample_data |-> IF out.k = "rows" /\ Len(out.rows) > 0
                     THEN Arr(out.rows)
                     ELSE Undefined,
     error_message |-> IF out.k = "raise" THEN Str(<<out.message>>) ELSE Null]

\* the execution engine's result: the verdict of the row set, with up to ten
\* of the returned rows retained verbatim for a failed check
EngineResult(test, out) ==
    [test_name |-> test.test_name,
     description |-> test.description,
     status |-> IF out.k = "raise" THEN "ERROR"
                ELSE IF Len(out.rows) = 0 THEN "PASS" ELSE "FAIL",
     severity |-> test.severity,
     sql_query |-> test.sql_query,
     rows_affected |-> Len(out.rows),
     sample_data |-> IF out.k = "rows" /\ Len(out.rows) > 0
                     THEN Arr(SubSeq(out.rows, 1, Min(MaxSampleRows, Len(out.rows))))
                     ELSE Undefined,
     error_message |-> IF out.k = "raise" THEN Str(<<out.message>>) ELSE Null]

\* the rows of the sample table the view renders for a test:
\* test.status === 'FAIL' && test.sample_data && test.sample_data.length > 0
\* guards test.sample_data.map(row => <tr>)
SampleRowsShown(test) ==
    IF /\ test.status = "FAIL"
       /\ ~Falsy(SampleData(test))
       /\ Len(SampleData(test).v) > 0
    THEN SampleData(test).v
    ELSE <<>>

NoRowsShown == [k |-> "hidden", rows |-> <<>>]

InitSample ==
    /\ RouteIdle
    /\ pc = "registry"
    /\ config = BareConfig
    /\ enabledTestIds = Undefined
    /\ selected = Undefined
    /\ generated = NoCall
    /\ WarehouseIdle
    /\ FormIdle
    /\ regenerated = NoCall
    /\ refetched = NotFetched
    /\ sample = Unmounted
    /\ submit = Unmounted
    /\ saves = Unmounted
    /\ viewed = Unmounted
    /\ hist = Unmounted

SampleUnchanged ==
    /\ UNCHANGED <<routeVars, registryVars, warehouseVars, formVars>>
    /\ UNCHANGED <<regenerated, refetched, submit, saves, viewed, hist>>

\* route.ts 247-270: a result of the handler, which has no sample_data
RouteResult ==
    /\ sample = Unmounted
    /\ \E n \in 1..MaxTests, out \in SampleOutcomes :
         sample' = [k |-> "result", out |-> out,
                    test |-> QueryResult(TestCase(n, Str(<<"SELECT">>)), out),
                    shown |-> NoRowsShown]
    /\ SampleUnchanged

\* a result of the execution engine
EngineExecute ==
    /\ sample = Unmounted
    /\ \E n \in 1..MaxTests, out \in SampleOutcomes :
         sample' = [k |-> "result", out |-> out,
                    test |-> EngineResult(TestCase(n, Str(<<"SELECT">>)), out),
                    shown |-> NoRowsShown]
    /\ SampleUnchanged

\* part_005 364-388: the view renders the sample rows table of the result
RenderSampleRows ==
    /\ sample # Unmounted
    /\ sample.shown = NoRowsShown
    /\ sample' = [sample EXCEPT !.shown = [k |-> "rendered",
                                           rows |-> SampleRowsShown(sample.test)]]
    /\ SampleUnchanged

NextSample ==
    \/ RouteResult
    \/ EngineExecute
    \/ RenderSampleRows

SpecSample == InitSample /\ [][NextSample]_vars

\* C24: no result carries more than 10 sample rows and the view shows no
\* more than 10 rows for it: of the rows a failed check's query returned,
\* more than 10 of them included, at most 10 are retained, each one a
\* returned row.
C24_AtMostTenSampleRows ==
    sample # Unmounted =>
       /\ ~Falsy(SampleData(sample.test)) =>
             /\ Len(SampleData(sample.test).v) <= 10
             /\ \A i \in DOMAIN SampleData(sample.test).v :
                   \E j \in DOMAIN sample.out.rows :
                      SampleData(sample.test).v[i] = sample.out.rows[j]
       /\ Len(sample.shown.rows) <= 10

\* a failed check whose query returned more than ten rows, ten of them shown
C24_Witness ==
    /\ sample # Unmounted
    /\ sample.out.k = "rows"
    /\ Len(sample.out.rows) > 10
    /\ sample.test.status = "FAIL"
    /\ sample.shown.k = "rendered"
    /\ Len(sample.shown.rows) = 10

\* ============================================ selection of enabled templates
\* C25: for a list of enabled ids, getEnabledTests returns only templates of
\* the registry: every element is a template declared in PREDEFINED_TESTS
\* whose id is on the list, an id that is not a registered template id
\* leaves no element, and the result is not longer than the list.
C25_OnlyRegistryTemplates ==
    (/\ selected # Undefined
     /\ ~Falsy(enabledTestIds)
     /\ Len(enabledTestIds.v) > 0) =>
       /\ Len(selected.v) <= Len(enabledTestIds.v)
       /\ \A n \in DOMAIN selected.v :
             /\ selected.v[n].k = "template"
             /\ selected.v[n].v.id \in TemplateIds
             /\ \E m \in DOMAIN enabledTestIds.v : enabledTestIds.v[m] = selected.v[n].v.id
       /\ Len(selected.v) =
             Cardinality({m \in DOMAIN enabledTestIds.v : enabledTestIds.v[m] \in TemplateIds})

\* ====================================================== invalid requests
\* a request the handler has to refuse
InvalidRequest(b) ==
    \/ Falsy(b.projectId)
    \/ /\ IsGcsMode(b)
       /\ \/ Falsy(b.gcsBucket)
          \/ Falsy(b.gcsFilePath)
          \/ Falsy(b.targetDataset)
          \/ Falsy(b.targetTable)
          \/ b.fileFormat # Present("csv")
    \/ /\ ~IsGcsMode(b)
       /\ \/ Falsy(b.datasets)
          \/ b.datasets.k # "array"
          \/ Len(b.datasets.v) = 0
          \/ Falsy(b.erdDescription)

\* C26: an invalid request is answered with status 400 before any storage,
\* warehouse or AI call: the handler goes from the received request straight
\* to the response, no file or table was read, no schema fetched, no test
\* case generated and no query sent.
C26_InvalidRequestRejectedBeforeAnyCall ==
    InvalidRequest(body) =>
       /\ pc \in {"received", "done", "alerted"}
       /\ pc # "received" => (response.status = 400 /\ response.results = Undefined)
       /\ pc = "received" => response = NoResponse
       /\ fileRowCount = 0 /\ bqRowCount = 0
       /\ dsIdx = 0 /\ allSchemas = <<>>
       /\ testCases = Undefined /\ testIdx = 0
       /\ results = <<>> /\ queried = <<>>
       /\ stored = NothingStored

\* a gcs request with every field but a file format other than csv, refused
C26_Witness ==
    /\ pc = "done"
    /\ IsGcsMode(body)
    /\ ~Falsy(body.projectId) /\ ~Falsy(body.gcsBucket) /\ ~Falsy(body.gcsFilePath)
    /\ ~Falsy(body.targetDataset) /\ ~Falsy(body.targetTable)
    /\ body.fileFormat = Present("json")
    /\ response.status = 400

\* a schema request without datasets, refused
C26_WitnessSchema ==
    /\ pc = "done"
    /\ ~IsGcsMode(body)
    /\ ~Falsy(body.projectId)
    /\ body.datasets = Arr(<<>>)
    /\ response.status = 400

\* ================================================ handleViewResult, twice
\* The details handed to handleViewResult: the output of a run, of a config
\* run or of the history, with or without predefined_results and summary.
MaxResults == 2

StatusResult(n, st) == [test_name |-> Present("test" \o ToString(n)), status |-> st]

ResultLists ==
    UNION {{[n \in 1..len |-> StatusResult(n, sts[n])] :
               sts \in [1..len -> {"PASS", "FAIL", "ERROR"}]} : len \in 0..MaxResults}

\* a summary that came with the details
GivenSummary ==
    [k |-> "object", v |-> [total_tests |-> 7, passed |-> 5, failed |-> 1, errors |-> 1]]

GivenResults == <<StatusResult(9, "FAIL")>>

DetailsValues ==
    [results : {Undefined, Null} \cup {Arr(rs) : rs \in ResultLists},
     predefined_results : {Undefined, Null, Arr(<<>>), Arr(GivenResults)},
     summary : {Undefined, Null, GivenSummary}]

NotViewed == [k |-> "none"]

InitView ==
    /\ RouteIdle
    /\ config = BareConfig
    /\ enabledTestIds = Undefined
    /\ selected = Undefined
    /\ generated = NoCall
    /\ WarehouseIdle
    /\ FormIdle
    /\ regenerated = NoCall
    /\ refetched = NotFetched
    /\ sample = Unmounted
    /\ submit = Unmounted
    /\ saves = Unmounted
    /\ hist = Unmounted
    /\ viewed \in {[k |-> "details", details |-> d, testResults |-> NotViewed,
                    again |-> NotViewed, page |-> "dashboard", alerted |-> FALSE] :
                      d \in DetailsValues \cup {Null}}

ViewUnchanged ==
    /\ UNCHANGED <<routeVars, registryVars, warehouseVars, formVars>>
    /\ UNCHANGED <<regenerated, refetched, sample, submit, saves, hist>>

\* handleViewResult(details)
ViewDetails ==
    /\ viewed # Unmounted
    /\ viewed.testResults = NotViewed
    /\ ~viewed.alerted
    /\ IF viewed.details = Null
       THEN viewed' = [viewed EXCEPT !.alerted = TRUE]
       ELSE viewed' = [viewed EXCEPT !.testResults = HandleViewResult(viewed.details),
                                     !.page = "results"]
    /\ ViewUnchanged

\* handleViewResult on what it stored
ViewAgain ==
    /\ viewed # Unmounted
    /\ viewed.testResults # NotViewed
    /\ viewed.again = NotViewed
    /\ viewed' = [viewed EXCEPT !.again = HandleViewResult(viewed.testResults)]
    /\ ViewUnchanged

NextView ==
    \/ ViewDetails
    \/ ViewAgain

SpecView == InitView /\ [][NextView]_vars

\* C29: handleViewResult adds predefined_results and a summary only where
\* the details have none, leaves results and an existing predefined_results
\* or summary as they are, and applied to its own output changes nothing.
C29_ViewResultIdempotentNonDestructive ==
    (viewed # Unmounted /\ viewed.testResults # NotViewed) =>
       LET d == viewed.details
           o == viewed.testResults
       IN  /\ o.results = d.results
           /\ ~Falsy(d.predefined_results) => o.predefined_results = d.predefined_results
           /\ ~Falsy(d.summary) => o.summary = d.summary
           /\ o.predefined_results # d.predefined_results =>
                 (Falsy(d.predefined_results) /\ o.predefined_results = d.results)
           /\ o.summary # d.summary =>
                 (Falsy(d.summary) /\ o.summary = Summary(d.results.v))
           /\ viewed.again # NotViewed => viewed.again = o

\* details with results only: both fields added, the second pass adds nothing
C29_Witness ==
    /\ viewed # Unmounted
    /\ viewed.again # NotViewed
    /\ viewed.details.predefined_results = Undefined
    /\ viewed.details.summary = Undefined
    /\ Len(viewed.testResults.predefined_results.v) = 2
    /\ viewed.testResults.summary.v.total_tests = 2
    /\ viewed.again = viewed.testResults

\* details whose summary disagrees with their results: the summary is kept
C29_WitnessSummaryKept ==
    /\ viewed # Unmounted
    /\ viewed.again # NotViewed
    /\ viewed.details.summary = GivenSummary
    /\ viewed.details.predefined_results = Undefined
    /\ viewed.details.results.k = "array"
    /\ viewed.testResults.predefined_results = viewed.details.results
    /\ viewed.testResults.summary = GivenSummary

\* ================================================== handleSubmit: loading
\* The dashboard form submits, waits for the answer of the backend and, on an
\* ok answer, stores the run and opens the results page.  A submit that did
\* not open the results page can be followed by another one.
MaxSubmits == 2

ProjectIds == {Str(<<>>), Present("proj")}

AnswerKinds == {"refused", "ok", "not_ok", "throws"}

InitSubmit ==
    /\ RouteIdle
    /\ config = BareConfig
    /\ enabledTestIds = Undefined
    /\ selected = Undefined
    /\ generated = NoCall
    /\ WarehouseIdle
    /\ FormIdle
    /\ regenerated = NoCall
    /\ refetched = NotFetched
    /\ sample = Unmounted
    /\ saves = Unmounted
    /\ viewed = Unmounted
    /\ hist = Unmounted
    /\ submit \in {[loading |-> FALSE, fetching |-> FALSE, projectId |-> p,
                    testResults |-> NotViewed, storedProjectId |-> Undefined,
                    page |-> "dashboard", alerts |-> 0, answers |-> <<>>] :
                       p \in ProjectIds}

SubmitUnchanged ==
    /\ UNCHANGED <<routeVars, registryVars, warehouseVars, formVars>>
    /\ UNCHANGED <<regenerated, refetched, sample, saves, viewed, hist>>

\* the submit button is disabled while loading
CanSubmit ==
    /\ submit.page = "dashboard"
    /\ ~submit.loading
    /\ Len(submit.answers) < MaxSubmits

\* handleSubmit on a form that fails its own validation: setLoading(true),
\* the throw before the fetch, the alert of the catch and setLoading(false)
\* of the finally run in one turn
SubmitRefused ==
    /\ CanSubmit
    /\ submit' = [submit EXCEPT !.loading = FALSE,
                                !.alerts = @ + 1,
                                !.answers = Append(@, "refused")]
    /\ SubmitUnchanged

\* handleSubmit up to await fetch(...)
SubmitSend ==
    /\ CanSubmit
    /\ submit' = [submit EXCEPT !.loading = TRUE, !.fetching = TRUE]
    /\ SubmitUnchanged

\* the fetch resolved with an ok response: response.json(), the project id
\* stored, handleViewResult(data), then the finally
SubmitAnsweredOk ==
    /\ submit.fetching
    /\ \/ \* the body of the response does not parse: the catch alerts
          submit' = [submit EXCEPT !.loading = FALSE, !.fetching = FALSE,
                                   !.alerts = @ + 1,
                                   !.answers = Append(@, "ok")]
       \/ \* the body is null: handleViewResult alerts and returns
          submit' = [submit EXCEPT !.loading = FALSE, !.fetching = FALSE,
                                   !.storedProjectId = submit.projectId,
                                   !.alerts = @ + 1,
                                   !.answers = Append(@, "ok")]
       \/ \E data \in DetailsValues :
            submit' = [submit EXCEPT !.loading = FALSE, !.fetching = FALSE,
                                     !.storedProjectId = submit.projectId,
                                     !.testResults = HandleViewResult(data),
                                     !.page = "results",
                                     !.answers = Append(@, "ok")]
    /\ SubmitUnchanged

\* fault for sensitivity: a response that is not ok leaves the form loading
SubmitAnsweredNotOkNoFinally ==
    /\ submit.fetching
    /\ submit' = [submit EXCEPT !.fetching = FALSE,
                                !.alerts = @ + 1,
                                !.answers = Append(@, "not_ok")]
    /\ SubmitUnchanged

\* the fetch resolved with a response that is not ok: the throw, the alert
\* of the catch, the finally
SubmitAnsweredNotOk ==
    /\ submit.fetching
    /\ submit' = [submit EXCEPT !.loading = FALSE, !.fetching = FALSE,
                                !.alerts = @ + 1,
                                !.answers = Append(@, "not_ok")]
    /\ SubmitUnchanged

\* the fetch rejected (network error): the alert of the catch, the finally
SubmitThrows ==
    /\ submit.fetching
    /\ submit' = [submit EXCEPT !.loading = FALSE, !.fetching = FALSE,
                                !.alerts = @ + 1,
                                !.answers = Append(@, "throws")]
    /\ SubmitUnchanged

NextSubmit ==
    \/ SubmitRefused
    \/ SubmitSend
    \/ SubmitAnsweredOk
    \/ SubmitAnsweredNotOk
    \/ SubmitThrows

SpecSubmit == InitSubmit /\ [][NextSubmit]_vars

\* a fetch settles: the promise resolves or rejects and its continuation runs
SubmitSettles == SubmitAnsweredOk \/ SubmitAnsweredNotOk \/ SubmitThrows

SpecSubmitFair == SpecSubmit /\ WF_vars(SubmitSettles)

\* a step that writes local storage or opens the results page
SubmitStores ==
    \/ submit'.testResults # submit.testResults
    \/ submit'.storedProjectId # submit.storedProjectId
    \/ submit'.page # submit.page

\* C27: every submit that sets loading to true sets it back to false, after
\* an ok response, a response that is not ok and a fetch that throws alike;
\* testResults and projectId are written to local storage and the results
\* page is opened only in the step that handles an ok response.
C27_LoadingClearedStoredOnlyOnOk ==
    /\ submit.loading ~> ~submit.loading
    /\ [](submit.loading <=> submit.fetching)
    /\ [][SubmitStores =>
            /\ submit.fetching
            /\ submit'.answers = Append(submit.answers, "ok")]_vars
    /\ []((submit.page = "results" \/ submit.testResults # NotViewed) =>
            /\ submit.storedProjectId = submit.projectId
            /\ submit.answers[Len(submit.answers)] = "ok")

\* a submit that was answered not ok, then one that was answered ok
C27_Witness ==
    /\ submit # Unmounted
    /\ submit.answers = <<"not_ok", "ok">>
    /\ ~submit.loading
    /\ submit.page = "results"
    /\ submit.testResults # NotViewed
    /\ submit.alerts = 1

\* a submit whose fetch threw: loading is false again, nothing is stored
C27_WitnessThrows ==
    /\ submit # Unmounted
    /\ submit.answers = <<"throws">>
    /\ ~submit.loading
    /\ submit.page = "dashboard"
    /\ submit.testResults = NotViewed
    /\ submit.storedProjectId = Undefined

\* ============================================= ResultsView: saved suggestions
\* The view shows the AI suggestions of each mapping with a button that saves
\* one as a custom test; savedTests holds a key for each saved suggestion.
MaxSaves == 2

MappingIds == {Str(<<"a">>), Str(<<"a", "-", "b">>)}

SuggestionNames == {Str(<<"c">>), Str(<<"b", "-", "c">>)}

\* the suggestions on display: the AI names them, two of a mapping may carry
\* the same name
Suggestions ==
    [test_name : SuggestionNames, sql_query : {Present("SELECT 1"), Present("SELECT 2")}]

SavePairs == [mapping : MappingIds, suggestion : Suggestions]

\* the template literal mappingId-test_name
SaveKey(mappingId, suggestion) == mappingId.v \o <<"-">> \o suggestion.test_name.v

\* savedTests.has(key) of the suggestion of a mapping
IsSaved(pair) == SaveKey(pair.mapping, pair.suggestion) \in saves.savedTests

InitSave ==
    /\ RouteIdle
    /\ config = BareConfig
    /\ enabledTestIds = Undefined
    /\ selected = Undefined
    /\ generated = NoCall
    /\ WarehouseIdle
    /\ FormIdle
    /\ regenerated = NoCall
    /\ refetched = NotFetched
    /\ sample = Unmounted
    /\ submit = Unmounted
    /\ viewed = Unmounted
    /\ hist = Unmounted
    /\ saves \in {[projectId |-> p, savedTests |-> {}, inFlight |-> {}, answered |-> {},
                   sent |-> 0, alerts |-> 0] : p \in ProjectIds}

SaveUnchanged ==
    /\ UNCHANGED <<routeVars, registryVars, warehouseVars, formVars>>
    /\ UNCHANGED <<regenerated, refetched, sample, submit, viewed, hist>>

\* the button of a saved suggestion is disabled
CanSave(pair) ==
    /\ ~IsSaved(pair)
    /\ pair \notin saves.inFlight
    /\ saves.sent < MaxSaves

\* handleSaveCustomTest without a project id: the alert, then return
SaveRefused ==
    /\ Falsy(saves.projectId)
    /\ \E pair \in SavePairs : CanSave(pair)
    /\ saves.alerts < MaxSaves
    /\ saves' = [saves EXCEPT !.alerts = @ + 1]
    /\ SaveUnchanged

\* handleSaveCustomTest up to await fetch(...)
SaveSend ==
    /\ ~Falsy(saves.projectId)
    /\ \E pair \in SavePairs :
         /\ CanSave(pair)
         /\ saves' = [saves EXCEPT !.inFlight = @ \cup {pair}, !.sent = @ + 1]
    /\ SaveUnchanged

\* the response is ok: setSavedTests(prev => new Set(prev).add(key))
SaveAnsweredOk ==
    /\ \E pair \in saves.inFlight :
         saves' = [saves EXCEPT
                     !.inFlight = @ \ {pair},
                     !.answered = @ \cup {pair},
                     !.savedTests = @ \cup {SaveKey(pair.mapping, pair.suggestion)},
                     !.alerts = @ + 1]
    /\ SaveUnchanged

\* the response is not ok, or the fetch rejected: the alert of the catch
SaveFailed ==
    /\ \E pair \in saves.inFlight :
         saves' = [saves EXCEPT !.inFlight = @ \ {pair}, !.alerts = @ + 1]
    /\ SaveUnchanged

NextSave ==
    \/ SaveRefused
    \/ SaveSend
    \/ SaveAnsweredOk
    \/ SaveFailed

SpecSave == InitSave /\ [][NextSave]_vars

\* C28: a suggestion of a mapping is shown as saved only if a save request
\* for that suggestion of that mapping was answered ok, so that a save marks
\* no other pair; a refused or failed save leaves the saved set as it is and
\* the saved set never shrinks.
C28_SavedOnlyWhatWasSaved ==
    /\ [](\A pair \in SavePairs : IsSaved(pair) => pair \in saves.answered)
    /\ [][/\ saves.savedTests \subseteq saves'.savedTests
          /\ saves'.answered = saves.answered => saves'.savedTests = saves.savedTests]_vars

\* ======================================================= HistoryList
\* The list fetches the history when it mounts and again on Refresh and on
\* Retry.
MaxFetches == 3

\* the most runs an answer lists
MaxHistory == 2

HistoryItem(n) == [execution_id |-> Present("run" \o ToString(n)), status |-> "PASS"]

\* what /api/history answers: the latest runs
HistoryLists == {[n \in 1..len |-> HistoryItem(n)] : len \in 0..MaxHistory}

\* err.message of a rejected fetch or of a failing res.json()
ThrownMessages == {Str(<<>>), Present("Failed to fetch")}

InitHistory ==
    /\ RouteIdle
    /\ config = BareConfig
    /\ enabledTestIds = Undefined
    /\ selected = Undefined
    /\ generated = NoCall
    /\ WarehouseIdle
    /\ FormIdle
    /\ regenerated = NoCall
    /\ refetched = NotFetched
    /\ sample = Unmounted
    /\ submit = Unmounted
    /\ saves = Unmounted
    /\ viewed = Unmounted
    /\ hist \in {[projectId |-> p, history |-> <<>>, loading |-> FALSE,
                  error |-> Str(<<>>), fetching |-> FALSE, started |-> 0,
                  failed |-> 0] : p \in ProjectIds}

HistoryUnchanged ==
    /\ UNCHANGED <<routeVars, registryVars, warehouseVars, formVars>>
    /\ UNCHANGED <<regenerated, refetched, sample, submit, saves, viewed>>

\* what the component renders: lines 100-118, else the list
HistoryScreen ==
    IF hist.loading /\ Len(hist.history) = 0 THEN "loading"
    ELSE IF ~Falsy(hist.error) THEN "error"
    ELSE "list"

\* fetchHistory up to await fetch(...): setLoading(true), setError("")
FetchHistoryStart ==
    /\ hist.started < MaxFetches
    /\ hist' = [hist EXCEPT !.loading = TRUE, !.error = Str(<<>>),
                            !.fetching = TRUE, !.started = @ + 1]
    /\ HistoryUnchanged

\* useEffect(() => { fetchHistory() }, [])
HistoryMount ==
    /\ hist.started = 0
    /\ FetchHistoryStart

\* the Refresh button of the list, disabled while loading
HistoryRefresh ==
    /\ hist.started > 0
    /\ HistoryScreen = "list"
    /\ ~hist.loading
    /\ FetchHistoryStart

\* the Retry button of the error screen
HistoryRetry ==
    /\ hist.started > 0
    /\ HistoryScreen = "error"
    /\ FetchHistoryStart

\* the response is ok: setHistory(data), then the finally
HistoryFetched ==
    /\ hist.fetching
    /\ \E data \in HistoryLists :
         hist' = [hist EXCEPT !.history = data, !.loading = FALSE, !.fetching = FALSE]
    /\ HistoryUnchanged

\* fault for sensitivity: a failed fetch empties the list
HistoryNotOkEmptiesList ==
    /\ hist.fetching
    /\ hist' = [hist EXCEPT !.error = Present("Failed to fetch history"),
                            !.history = <<>>,
                            !.loading = FALSE, !.fetching = FALSE,
                            !.failed = @ + 1]
    /\ HistoryUnchanged

\* the response is not ok: the throw, setError of the catch, the finally
HistoryNotOk ==
    /\ hist.fetching
    /\ hist' = [hist EXCEPT !.error = Present("Failed to fetch history"),
                            !.loading = FALSE, !.fetching = FALSE,
                            !.failed = @ + 1]
    /\ HistoryUnchanged

\* the fetch rejected or res.json() threw:
\* setError(err.message || "An error occurred"), the finally
HistoryThrows ==
    /\ hist.fetching
    /\ \E message \in ThrownMessages :
         hist' = [hist EXCEPT !.error = IF Falsy(message)
                                        THEN Present("An error occurred")
                                        ELSE message,
                              !.loading = FALSE, !.fetching = FALSE,
                              !.failed = @ + 1]
    /\ HistoryUnchanged

NextHistory ==
    \/ HistoryMount
    \/ HistoryRefresh
    \/ HistoryRetry
    \/ HistoryFetched
    \/ HistoryNotOk
    \/ HistoryThrows

SpecHistory == InitHistory /\ [][NextHistory]_vars

\* C30: whenever no fetch is in flight loading is false; a step that starts
\* a fetch leaves no error; a step in which a fetch fails sets an error and
\* leaves the loaded history as it was.
C30_HistoryLoadingAndError ==
    /\ [](~hist.fetching => ~hist.loading)
    /\ [][hist'.started # hist.started => hist'.error = Str(<<>>)]_vars
    /\ [][hist'.failed # hist.failed =>
            /\ ~Falsy(hist'.error)
            /\ hist'.history = hist.history]_vars

\* a history was loaded, a Refresh failed: the error is set, the list kept
C30_Witness ==
    /\ hist # Unmounted
    /\ hist.started = 2
    /\ hist.failed = 1
    /\ ~hist.fetching
    /\ ~hist.loading
    /\ Len(hist.history) = 2
    /\ hist.error = Present("Failed to fetch history")

\* a Retry after a failed fetch: the error is cleared while the fetch runs
C30_WitnessRetry ==
    /\ hist # Unmounted
    /\ hist.failed = 1
    /\ hist.started = 2
    /\ hist.fetching
    /\ hist.loading
    /\ hist.error = Str(<<>>)

====
